---- MODULE Spec2Model ----
(***************************************************************************)
(* drDragonBot: a Telegram bot that drives a qBittorrent daemon and two    *)
(* tracker sites.  Three specifications share this module:                 *)
(*   Spec         the conversation router (internal/bot): one goroutine    *)
(*                per inbound update, the pendingLinks table;              *)
(*   SpecTracker  one TorrentTrackerClient.DownloadTorrent call, stepped   *)
(*                at every remote exchange;                                *)
(*   SpecDaemon   one QBittorrentClient.AddTorrent / GetTorrents call,     *)
(*                stepped at every HTTP request.                           *)
(* Strings the code scans (message text, callback data) are sequences of   *)
(* tokens, so that suffix tests, splitting and pattern matching are        *)
(* computed rather than assumed.                                           *)
(***************************************************************************)
EXTENDS Integers, Sequences, FiniteSets, TLC

VARIABLES
    \* ---- router (Bot) ----
    pendingLinks,   \* Bot.pendingLinks: the entries <<chatID, text>> of the map
    pc,             \* per goroutine: position in handleUpdate and its callees
    update,         \* per goroutine: the update being handled
    torrentLink,    \* per goroutine: local torrentLink of handleCallbackQuery
    hadPending,     \* per goroutine: whether the chat had an entry at the test of line 231
    calls,          \* per goroutine: client entry points entered for this update
    result,         \* per goroutine: what DownloadAndAddTorrent returned (line 316)
    last,           \* what the goroutine that returned most recently did
    dReturn,        \* what the most recent DownloadAndAddTorrent call returned
    linkText,       \* the text handed to ProcessTorrentLink
    processed,      \* what ProcessTorrentLink returned for it
    \* ---- one management callback, step by step ----
    mpc,            \* position inside handleCallbackQuery and its callees
    mData,          \* query.Data
    mPage,          \* the page number strconv.Atoi gave
    mRetry,         \* whether tryReconnect has succeeded in this handling
    mStore,         \* the torrents the daemon holds: how many, and their hashes
    mCalls,         \* daemon operations of this handling, in order, with answers
    mSent,          \* messages sent to the chat in this handling, in order
    \* ---- tracker client (TorrentTrackerClient) ----
    credentials,    \* keys of TorrentTrackerClient.credentials
    tpc,            \* position inside DownloadTorrent
    trackerName,    \* argument of the running DownloadTorrent call
    tJar,           \* cookies held by t.client.Jar
    tResp,          \* status code of the response held in resp
    tBody,          \* the payload io.ReadAll returned
    tLog,           \* remote exchanges and reconnects of the running call
    tResult,        \* what the call returned
    \* ---- daemon client (QBittorrentClient) ----
    isLoggedIn,     \* QBittorrentClient.isLoggedIn
    qpc,            \* position inside the running daemon operation
    qOp,            \* the running operation and its arguments
    qLog,           \* HTTP requests of the running call, in order
    qTorrents,      \* the list the last GetTorrents of the call decoded
    qResult,        \* what the call returned
    qJar,           \* cookies held by q.client.Jar
    qReturned,      \* the entry of qTorrents AddTorrent returns, 0 for nil
    \* ---- the daemon session under concurrent handlers ----
    spc,            \* per goroutine: position inside ensureLoggedIn or Reconnect
    sLogin,         \* how the most recent login exchange ended
    \* ---- configuration ----
    env,            \* the process environment: variable name to value, "" if unset
    config          \* Config.TorrentCategories as LoadConfig returned it

handlerVars == <<pendingLinks, pc, update, torrentLink, hadPending, calls, result,
                 last>>
linkVars    == <<linkText, processed>>
manageVars  == <<mpc, mData, mPage, mRetry, mStore, mCalls, mSent>>
configVars  == <<env, config>>
botVars     == <<configVars, dReturn, linkVars, manageVars>>
routerVars  == <<handlerVars, botVars>>
trackerVars == <<credentials, tpc, trackerName, tJar, tResp, tBody, tLog, tResult>>
daemonVars  == <<isLoggedIn, qpc, qOp, qLog, qTorrents, qResult, qJar, qReturned,
                 spc, sLogin>>
vars == <<routerVars, trackerVars, daemonVars>>

\* ------------------------------------------------------------------------
\* Bounds
\* ------------------------------------------------------------------------
\* goroutines handling updates at the same time (Bot.Start spawns one per update)
MaxHandlers == 2

Handlers == 1..MaxHandlers

\* ------------------------------------------------------------------------
\* Configuration (config.LoadConfig)
\* ------------------------------------------------------------------------
\* chats that talk to the bot; only the first is in ALLOWED_USERS
Chats == {101, 202}
AllowedUsers == {101}

Dot   == "."
Colon == ":"

\* Config.TorrentCategories: key (the callback data, trailing dot included) to
\* SavePath, read from the environment variable of that name.
TorrentCategories ==
    ( <<"Movies", Dot>>     :> "MOVIES_PATH"     ) @@
    ( <<"TV Shows", Dot>>   :> "TV_SHOWS_PATH"   ) @@
    ( <<"Games", Dot>>      :> "GAMES_PATH"      ) @@
    ( <<"MultiParts", Dot>> :> "MULTIPARTS_PATH" ) @@
    ( <<"AudioBooks", Dot>> :> "AUDIOBOOKS_PATH" ) @@
    ( <<"MANGA", Dot>>      :> "MANGA_PATH"      ) @@
    ( <<"COMICS", Dot>>     :> "COMICS_PATH"     )

\* the categories in the order of LoadConfig's default section
CategoryNames ==
    <<"Movies", "TV Shows", "Games", "MultiParts", "AudioBooks", "MANGA", "COMICS">>

\* the environment variable each SavePath is read from
PathVar ==
    ( "Movies"     :> "MOVIES_PATH"     ) @@
    ( "TV Shows"   :> "TV_SHOWS_PATH"   ) @@
    ( "Games"      :> "GAMES_PATH"      ) @@
    ( "MultiParts" :> "MULTIPARTS_PATH" ) @@
    ( "AudioBooks" :> "AUDIOBOOKS_PATH" ) @@
    ( "MANGA"      :> "MANGA_PATH"      ) @@
    ( "COMICS"     :> "COMICS_PATH"     )

PathVars == {PathVar[n] : n \in DOMAIN PathVar}

\* the default each category is documented to fall back to
DefaultSavePath ==
    ( "Movies"     :> "Z:\\"            ) @@
    ( "TV Shows"   :> "Y:\\"            ) @@
    ( "Games"      :> "D:\\gamesTorrent" ) @@
    ( "MultiParts" :> "W:\\"            ) @@
    ( "AudioBooks" :> "T:\\"            ) @@
    ( "MANGA"      :> "R:\\"            ) @@
    ( "COMICS"     :> "S:\\"            )

\* os.Getenv: the value, "" for a variable that is not set
Getenv(e, name) == e[name]

\* the map literal of LoadConfig: every key carries the trailing dot
CategoriesLiteral(e) ==
    [key \in {<<CategoryNames[i], Dot>> : i \in DOMAIN CategoryNames}
        |-> Getenv(e, PathVar[key[1]])]

\* "if category, ok := config.TorrentCategories[name]; ok && category.SavePath
\* == "" { ... }": the key looked up is the bare name
DefaultKey(name) == <<name>>

SetDefault(cats, name) ==
    IF DefaultKey(name) \in DOMAIN cats /\ cats[DefaultKey(name)] = ""
    THEN [cats EXCEPT ![DefaultKey(name)] = DefaultSavePath[name]]
    ELSE cats

RECURSIVE SetDefaults(_, _)
SetDefaults(cats, i) ==
    IF i > Len(CategoryNames) THEN cats
    ELSE SetDefaults(SetDefault(cats, CategoryNames[i]), i + 1)

LoadConfig(e) == SetDefaults(CategoriesLiteral(e), 1)

\* no configuration loaded yet
NoConfig == <<>>

\* the environment with every path variable set, to a value named after it
FullEnv == [v \in PathVars |-> v]

\* the values a path variable takes: unset, or a directory
EnvValues == {"", "/data"}

\* the callback data of the buttons CreateCategoryKeyboard renders
CategoryButtons ==
    { <<"Movies", Dot>>, <<"TV Shows", Dot>>, <<"Games", Dot>>,
      <<"AudioBooks", Dot>>, <<"MultiParts", Dot>>, <<"MANGA", Dot>>,
      <<"COMICS", Dot>> }

\* ------------------------------------------------------------------------
\* Strings as token sequences
\* ------------------------------------------------------------------------
HasSuffixDot(data) == Len(data) > 0 /\ data[Len(data)] = Dot

ContainsColon(data) == \E i \in 1..Len(data) : data[i] = Colon

\* strings.Split(data, ":"): the pieces between the separators, in order
RECURSIVE SplitColon(_)
SplitColon(data) ==
    IF ~ContainsColon(data) THEN <<data>>
    ELSE LET i == CHOOSE k \in 1..Len(data) :
                     data[k] = Colon /\ \A j \in 1..(k-1) : data[j] # Colon
         IN <<SubSeq(data, 1, i-1)>> \o SplitColon(SubSeq(data, i+1, Len(data)))

Schemes      == {"http://", "https://"}
TrackerNames == {"kinozal", "rutracker"}
\* tokens matching \.[a-z]{2,4}\b
TLDs         == {".org", ".tv"}
\* tokens matching \d+
Digits       == {"555", "777"}

\* torrentLinkRegex.MatchString(text):
\* (http|https)://(kinozal|rutracker)\.[a-z]{2,4}\b(...)* somewhere in the text
TorrentLinkRegexMatch(text) ==
    \E i \in 1..Len(text) :
        /\ i + 2 <= Len(text)
        /\ text[i] \in Schemes
        /\ text[i+1] \in TrackerNames
        /\ text[i+2] \in TLDs

\* tracker.FindString(link): the leftmost "kinozal" or "rutracker" of the text
FindTracker(text) ==
    IF \E i \in 1..Len(text) : text[i] \in TrackerNames
    THEN text[CHOOSE i \in 1..Len(text) :
                  text[i] \in TrackerNames
                  /\ \A j \in 1..(i-1) : text[j] \notin TrackerNames]
    ELSE ""

\* idRegex.FindStringSubmatch(link)[1] for the pattern key(\d+); "" on no match.
\* The pattern is not anchored, so it also matches where the key ends a longer
\* word: such a word is written as two tokens, "start=" as "star", "t=".
FindId(text, key) ==
    LET hits == {i \in 1..Len(text) :
                    i + 1 <= Len(text) /\ text[i] = key /\ text[i+1] \in Digits}
    IN IF hits = {} THEN ""
       ELSE text[(CHOOSE i \in hits : \A j \in hits : i <= j) + 1]

\* the id pattern ProcessTorrentLink uses for a site
IdKey(name) == IF name = "rutracker" THEN "t=" ELSE "id="

ExtractionError(name) ==
    IF name = "rutracker" THEN "could not extract ID from rutracker link"
    ELSE "could not extract ID from kinozal link"

ProcessTorrentLinkOneError(link) ==
    IF ~TorrentLinkRegexMatch(link)
    THEN [err |-> "invalid torrent link format", tracker |-> "", id |-> ""]
    ELSE LET name == FindTracker(link)
             id   == FindId(link, IdKey(name))
         IN IF id = ""
            THEN [err |-> "invalid torrent link format", tracker |-> "", id |-> ""]
            ELSE [err |-> "", tracker |-> name, id |-> id]

\* ProcessTorrentLink(link): [err, tracker, id]
ProcessTorrentLink(link) ==
    IF ~TorrentLinkRegexMatch(link)
    THEN [err |-> "invalid torrent link format", tracker |-> "", id |-> ""]
    ELSE LET name == FindTracker(link)
             id   == FindId(link, IdKey(name))
         IN IF id = ""
            THEN [err |-> ExtractionError(name), tracker |-> "", id |-> ""]
            ELSE [err |-> "", tracker |-> name, id |-> id]

\* before ProcessTorrentLink has returned
NoOutput == [err |-> "pending", tracker |-> "", id |-> ""]

\* ------------------------------------------------------------------------
\* Updates the bot receives
\* ------------------------------------------------------------------------
LinkA    == <<"https://", "rutracker", ".org", "/forum/dl.php?", "t=", "555">>
LinkNoId == <<"https://", "rutracker", ".org", "/forum/index.php">>
CmdStatus == <<"/status">>
Hello     == <<"hello">>

MessageTexts == {LinkA, LinkNoId, CmdStatus, Hello}

\* Texts handed to ProcessTorrentLink: words before the URL, the URL up to its
\* path, and its query string
LinkPrefixes ==
    { <<>>,
      <<"kinozal", " ">>,
      <<"kinozal", " ", "id=", "777", " ">>,
      <<"t=", "777", " ">> }

LinkHeads ==
    { <<scheme, site, ".org", "/forum/viewtopic.php">> :
          scheme \in Schemes, site \in TrackerNames }
    \cup { <<"https://", "example", ".org", "/index.php">>, <<"hello">> }

LinkQueries ==
    { <<>>,
      <<"?", "t=", "555">>,
      <<"?", "id=", "555">>,
      <<"?", "f=", "555">>,
      <<"?", "star", "t=", "777", "&", "t=", "555">>,
      <<"?", "u", "id=", "777", "&", "id=", "555">> }

LinkTexts ==
    { p \o h \o q : p \in LinkPrefixes, h \in LinkHeads, q \in LinkQueries }
    \cup MessageTexts

\* Message.IsCommand / Message.Command
CommandTokens == {"/status", "/list", "/reconnect", "/help"}
IsCommand(text) == Len(text) > 0 /\ text[1] \in CommandTokens

CallbackDatas ==
    { <<"Movies", Dot>>,
      <<"Bogus", Dot>>,
      <<"pause", Colon, "abc">>,
      <<"pause", Colon, "abc", Dot>>,
      <<"junk">> }

Updates ==
    [kind : {"callback"}, chat : Chats, data : CallbackDatas] \cup
    [kind : {"message"},  chat : Chats, data : MessageTexts]

NoUpdate == [kind |-> "none", chat |-> 0, data |-> <<>>]
NoLink   == <<>>

\* ------------------------------------------------------------------------
\* The pendingLinks map
\* ------------------------------------------------------------------------
EntriesOf(m, k) == {e \in m : e[1] = k}

\* m[k], the zero value "" when the key is absent
MapGet(m, k) ==
    IF EntriesOf(m, k) = {} THEN NoLink
    ELSE (CHOOSE e \in EntriesOf(m, k) : TRUE)[2]

MapStoreKeepBoth(m, k, v) == m \cup {<<k, v>>}

\* m[k] = v
MapStore(m, k, v) == {e \in m : e[1] # k} \cup {<<k, v>>}

MapDeleteAll(m, k) == {}

\* delete(m, k)
MapDelete(m, k) == {e \in m : e[1] # k}

\* ------------------------------------------------------------------------
\* Router: client entry points a handler may enter
\* ------------------------------------------------------------------------
\* A handler that talks to the daemon always enters `first`; whether it goes on
\* to the operations of `more` (the action itself, tryReconnect's Reconnect)
\* depends on what the daemon answers.
CallSets(first, more) == {{first} \cup x : x \in SUBSET more}

ActionCallAlwaysPurging(action, hash) ==
    CASE action = <<"pause">>          -> {<<"PauseTorrents", hash>>}
      [] action = <<"resume">>         -> {<<"ResumeTorrents", hash>>}
      [] action = <<"delete">>         -> {<<"DeleteTorrents", hash, TRUE>>}
      [] action = <<"deletewithdata">> -> {<<"DeleteTorrents", hash, TRUE>>}
      [] OTHER                         -> {}

\* the daemon operation HandleTorrentAction performs for a lifecycle verb
ActionCall(action, hash) ==
    CASE action = <<"pause">>          -> {<<"PauseTorrents", hash>>}
      [] action = <<"resume">>         -> {<<"ResumeTorrents", hash>>}
      [] action = <<"delete">>         -> {<<"DeleteTorrents", hash, FALSE>>}
      [] action = <<"deletewithdata">> -> {<<"DeleteTorrents", hash, TRUE>>}
      [] OTHER                         -> {}

LifecycleVerbs ==
    {<<"pause">>, <<"resume">>, <<"delete">>, <<"deletewithdata">>, <<"info">>}

CallOps(cs) == {c[1] : c \in cs}

\* ------------------------------------------------------------------------
\* Router: the text of a successful download
\* ------------------------------------------------------------------------
\* the fields of TorrentInfo the success text uses
TorrentInfos ==
    { [name |-> "ubuntu.iso", category |-> "",       savePath |-> "/downloads"],
      [name |-> "debian.iso", category |-> "Movies", savePath |-> "MOVIES_PATH"] }

NoTorrent == [name |-> "", category |-> "", savePath |-> ""]

SuccessTextWithoutName(t) ==
    <<"Torrent successfully added to download queue:", "Category: ", t.category,
      "Save Path: ", t.savePath>>

\* the string DownloadAndAddTorrent returns for the record AddTorrent gave it
SuccessText(t) ==
    <<"Torrent successfully added to download queue:", t.name,
      "Category: ", t.category, "Save Path: ", t.savePath>>

\* the success edit of handleTorrentDownload
SuccessEdit(text, savePath) == <<"OK ">> \o text \o <<"Save path: ", savePath>>

NoResult == [text |-> <<>>, torrent |-> NoTorrent]

\* b.api.Send: one more message in the chat
Say(kind, text, err) == mSent' = Append(mSent, <<kind, text, err>>)

\* one more operation of the daemon client, with its answer
Called(op, answer, list) == mCalls' = Append(mCalls, <<op, answer, list>>)

\* error wrapping: fmt.Errorf("<stage>: %w", err)
Errorf(stage, err) == <<stage, err>>

NoError  == <<>>
NoReturn == [text |-> <<>>, err |-> NoError]

\* ------------------------------------------------------------------------
\* Router: the handlers
\* ------------------------------------------------------------------------
\* The record a returning goroutine leaves in `last`:
\*   update       the update it handled
\*   hadPending   whether the test of handleCallbackQuery found a pending link
\*   torrentLink  the link handed to handleTorrentDownload
\*   replaced     for a link message, the value the store overwrote
\*   calls        the client entry points it entered
\*   reply        the last message it sent to the chat
\*   text         for the success edit, the parts of the message
\*   added        for the success edit, the record AddTorrent returned
\*   removed      for the success edit, the value the delete took out of the map
Handled(u, hp, l, old, cs, msg) ==
    [update |-> u, hadPending |-> hp, torrentLink |-> l, replaced |-> old,
     calls |-> cs, reply |-> msg, text |-> <<>>, added |-> NoTorrent,
     removed |-> NoLink]

NoneHandled == Handled(NoUpdate, FALSE, NoLink, NoLink, {}, "")

\* the goroutine h returns
Finish(h, rec) ==
    /\ pc' = [pc EXCEPT ![h] = "idle"]
    /\ update' = [update EXCEPT ![h] = NoUpdate]
    /\ torrentLink' = [torrentLink EXCEPT ![h] = NoLink]
    /\ hadPending' = [hadPending EXCEPT ![h] = FALSE]
    /\ calls' = [calls EXCEPT ![h] = {}]
    /\ result' = [result EXCEPT ![h] = NoResult]
    /\ last' = rec

\* Start hands each update to a fresh goroutine; idle goroutines are
\* interchangeable, so the lowest idle one takes it
Fresh(h) == pc[h] = "idle" /\ \A j \in Handlers : j < h => pc[j] # "idle"

\* handleUpdate, message with a tracker link -> handleTorrentLink
HandleTorrentLink(h, u) ==
    /\ Fresh(h)
    /\ u.kind = "message"
    /\ TorrentLinkRegexMatch(u.data)
    /\ pendingLinks' = MapStore(pendingLinks, u.chat, u.data)
    /\ Finish(h, Handled(u, FALSE, NoLink, MapGet(pendingLinks, u.chat), {},
                         "What category should this download be saved as?"))
    /\ UNCHANGED <<botVars, trackerVars, daemonVars>>

\* the daemon entry points of a command, one set per possible run
CommandCalls(cmd) ==
    CASE cmd \in {"/status", "/list"} ->
             CallSets(<<"GetTorrents">>, {<<"Reconnect">>})
      [] cmd = "/reconnect" ->
             CallSets(<<"Reconnect">>, {<<"GetTorrents">>})
      [] OTHER -> {{}}

\* handleUpdate, message without link that is a command -> handleCommand
HandleCommand(h, u) ==
    /\ Fresh(h)
    /\ u.kind = "message"
    /\ ~TorrentLinkRegexMatch(u.data)
    /\ IsCommand(u.data)
    /\ IF u.chat \notin AllowedUsers
       THEN Finish(h, Handled(u, FALSE, NoLink, NoLink, {},
                              "You are not authorized to use this bot."))
       ELSE \E cs \in CommandCalls(u.data[1]) :
                Finish(h, Handled(u, FALSE, NoLink, NoLink, cs, "command result"))
    /\ UNCHANGED pendingLinks
    /\ UNCHANGED <<botVars, trackerVars, daemonVars>>

\* handleUpdate, any other message: falls off the end
IgnoreMessage(h, u) ==
    /\ Fresh(h)
    /\ u.kind = "message"
    /\ ~TorrentLinkRegexMatch(u.data)
    /\ ~IsCommand(u.data)
    /\ Finish(h, Handled(u, FALSE, NoLink, NoLink, {}, ""))
    /\ UNCHANGED pendingLinks
    /\ UNCHANGED <<botVars, trackerVars, daemonVars>>

IsCategorySelectionAnyState(data, chat) == HasSuffixDot(data)

\* the test of handleCallbackQuery's first branch
IsCategorySelection(data, chat) ==
    HasSuffixDot(data) /\ MapGet(pendingLinks, chat) # NoLink

\* handleCallbackQuery, the branches after the category test: the reply and
\* the client entry points, one pair per possible run
ManagementRuns(data) ==
    IF ContainsColon(data)
    THEN LET parts  == SplitColon(data)
             action == parts[1]
         IN IF Len(parts) < 2
            THEN {<<"Invalid callback data", {}>>}
            ELSE CASE action = <<"manage">> ->
                        {<<"torrent details", cs>> :
                            cs \in CallSets(<<"GetTorrents">>, {<<"Reconnect">>})}
                   [] action \in LifecycleVerbs ->
                        {<<"torrent action", cs>> :
                            cs \in CallSets(<<"GetTorrents">>,
                                {<<"Reconnect">>} \cup ActionCall(action, parts[2]))}
                   [] action = <<"list">> ->
                        IF Len(parts) > 2 /\ parts[2] = <<"page">>
                        THEN {<<"Select a torrent to manage:", {<<"GetTorrents">>}>>}
                        ELSE {<<"", {}>>}
                   [] OTHER -> {<<"Unknown action", {}>>}
    ELSE {<<"Unknown callback data", {}>>}

\* handleCallbackQuery up to the branch it takes; management tokens are
\* served to the end, a category selection goes on to read the link
HandleCallbackQuery(h, u) ==
    /\ Fresh(h)
    /\ u.kind = "callback"
    /\ IF IsCategorySelection(u.data, u.chat)
       THEN /\ pc' = [pc EXCEPT ![h] = "read"]
            /\ update' = [update EXCEPT ![h] = u]
            /\ hadPending' = [hadPending EXCEPT ![h] = EntriesOf(pendingLinks, u.chat) # {}]
            /\ UNCHANGED <<torrentLink, calls, result, last>>
       ELSE \E run \in ManagementRuns(u.data) :
                Finish(h, Handled(u, EntriesOf(pendingLinks, u.chat) # {},
                                  NoLink, NoLink, run[2], run[1]))
    /\ UNCHANGED pendingLinks
    /\ UNCHANGED <<botVars, trackerVars, daemonVars>>

ReadPendingLinkProcessingFirst(h) ==
    /\ pc[h] = "read"
    /\ LET link == MapGet(pendingLinks, update[h].chat)
           key  == update[h].data
       IN IF ProcessTorrentLink(link).err # ""
          THEN Finish(h, Handled(update[h], hadPending[h], link, NoLink, calls[h],
                                 "Error processing link"))
          ELSE IF key \notin DOMAIN TorrentCategories
          THEN Finish(h, Handled(update[h], hadPending[h], link, NoLink, calls[h],
                                 "Invalid category selected"))
          ELSE /\ pc' = [pc EXCEPT ![h] = "download"]
               /\ torrentLink' = [torrentLink EXCEPT ![h] = link]
               /\ UNCHANGED <<update, hadPending, calls, result, last>>
    /\ UNCHANGED pendingLinks
    /\ UNCHANGED <<botVars, trackerVars, daemonVars>>

\* torrentLink := b.pendingLinks[chatID], then handleTorrentDownload up to the
\* call of DownloadAndAddTorrent
ReadPendingLink(h) ==
    /\ pc[h] = "read"
    /\ LET link == MapGet(pendingLinks, update[h].chat)
           key  == update[h].data
       IN IF key \notin DOMAIN TorrentCategories
          THEN Finish(h, Handled(update[h], hadPending[h], link, NoLink, calls[h],
                                 "Invalid category selected"))
          ELSE IF ProcessTorrentLink(link).err # ""
          THEN Finish(h, Handled(update[h], hadPending[h], link, NoLink, calls[h],
                                 "Error processing link"))
          ELSE /\ pc' = [pc EXCEPT ![h] = "download"]
               /\ torrentLink' = [torrentLink EXCEPT ![h] = link]
               /\ UNCHANGED <<update, hadPending, calls, result, last>>
    /\ UNCHANGED pendingLinks
    /\ UNCHANGED <<botVars, trackerVars, daemonVars>>

\* DownloadAndAddTorrent: DownloadTorrent, then AddTorrent unless that failed
DownloadAndAddTorrent(h) ==
    /\ pc[h] = "download"
    /\ LET p    == ProcessTorrentLink(torrentLink[h])
           path == TorrentCategories[update[h].data]
           dl   == <<"DownloadTorrent", p.tracker, p.id>>
           add  == <<"AddTorrent", path>>
       IN \E outcome \in {"download failed", "add failed", "added"}, t \in TorrentInfos :
            CASE outcome = "download failed" ->
                     Finish(h, Handled(update[h], hadPending[h], torrentLink[h], NoLink,
                                       calls[h] \cup {dl}, "Download failed"))
              [] outcome = "add failed" ->
                     Finish(h, Handled(update[h], hadPending[h], torrentLink[h], NoLink,
                                       calls[h] \cup {dl, add}, "Download failed"))
              [] outcome = "added" ->
                     /\ pc' = [pc EXCEPT ![h] = "clear"]
                     /\ calls' = [calls EXCEPT ![h] = calls[h] \cup {dl, add}]
                     /\ result' = [result EXCEPT ![h] =
                                       [text |-> SuccessText(t), torrent |-> t]]
                     /\ UNCHANGED <<update, torrentLink, hadPending, last>>
    /\ UNCHANGED pendingLinks
    /\ UNCHANGED <<botVars, trackerVars, daemonVars>>

\* the success edit, then delete(b.pendingLinks, chatID)
ClearPendingLink(h) ==
    /\ pc[h] = "clear"
    /\ pendingLinks' = MapDelete(pendingLinks, update[h].chat)
    /\ Finish(h, [Handled(update[h], hadPending[h], torrentLink[h], NoLink, calls[h],
                          "Torrent successfully added")
                     EXCEPT !.text = SuccessEdit(result[h].text,
                                                 TorrentCategories[update[h].data]),
                            !.added = result[h].torrent,
                            !.removed = MapGet(pendingLinks, update[h].chat)])
    /\ UNCHANGED <<botVars, trackerVars, daemonVars>>

\* ------------------------------------------------------------------------
\* Tracker client: TorrentTrackerClient.DownloadTorrent
\* ------------------------------------------------------------------------
\* longest payload a tracker answers with
MaxBodyLen == 11

\* status codes, as the decimal text of the status line
StatusOK           == "200"
StatusUnauthorized == "401"
StatusForbidden    == "403"
\* the shortest payload the format check lets through
MinTorrentLen      == 10

TransportError == "transport error"
Statuses       == {StatusOK, "204", StatusUnauthorized, StatusForbidden, "404", "500"}
\* what an HTTP exchange can end in: no response, or a response with a status
GetOutcomes    == {TransportError} \cup Statuses
LoginOutcomes  == {TransportError, StatusOK, StatusForbidden}

\* a payload: its length and its first byte ("" when it is empty)
Bodies ==
    {[len |-> 0, first |-> ""]} \cup
    [len : 1..MaxBodyLen, first : {"d", "<"}]
NoBody == [len |-> 0, first |-> ""]

\* keys of TrackerURLs
TrackerURLs == {"rutracker", "kinozal"}
\* sites DownloadTorrent is called with
CallSites   == TrackerURLs \cup {"nnmclub"}

\* the number of Reconnect calls a log holds
ReconnectCount(log) ==
    Cardinality({i \in 1..Len(log) : log[i][1] = "Reconnect"})

\* A cookie is named by when its login answered: 0 for a login of an earlier
\* call, 1 + the number of Reconnects of the running call before it otherwise.
CookieNow(log) == 1 + ReconnectCount(log)

\* the jar as the next call finds it
EarlierCookies(jar) == {0 : c \in jar}

\* LoginToTracker(site) when the login POST, if one is sent, ends in o and
\* sets the session cookie named cookie: the error ("" for nil), the
\* exchanges it adds to the log, each with the cookies the request carried,
\* and the jar afterwards (the new session cookie takes the place of the old)
LoginToTracker(site, o, jar, cookie) ==
    IF site \notin credentials
    THEN [err |-> "credentials not found for tracker", log |-> <<>>, jar |-> jar]
    ELSE IF o = TransportError
    THEN [err |-> "login request failed", log |-> <<<<"POST login", o, jar>>>>,
          jar |-> jar]
    ELSE IF o # StatusOK
    THEN [err |-> "login failed with status code",
          log |-> <<<<"POST login", o, jar>>>>, jar |-> jar]
    ELSE [err |-> "", log |-> <<<<"POST login", o, jar>>>>, jar |-> {cookie}]

TrackerReconnectKeepingJar(site, cause, o) ==
    LET r == LoginToTracker(site, o, tJar, CookieNow(tLog) + 1)
    IN [err |-> r.err, log |-> <<<<"Reconnect", cause>>>> \o r.log, jar |-> r.jar]

\* Reconnect(site): a fresh jar, then LoginToTracker
TrackerReconnect(site, cause, o) ==
    LET r == LoginToTracker(site, o, {}, CookieNow(tLog) + 1)
    IN [err |-> r.err, log |-> <<<<"Reconnect", cause>>>> \o r.log, jar |-> r.jar]

StatusNeedsReconnectForbiddenOnly(status) == status = StatusForbidden

StatusNeedsReconnectAlways(status) == TRUE

\* the statuses DownloadTorrent answers with a reconnect
StatusNeedsReconnect(status) ==
    status = StatusUnauthorized \/ status = StatusForbidden

TrackerFail(msg) ==
    /\ tpc' = "done"
    /\ tResult' = msg

\* a caller enters DownloadTorrent(site, id)
TrackerEnter ==
    /\ tpc = "idle"
    /\ \E site \in CallSites : trackerName' = site
    /\ tpc' = "login"
    /\ UNCHANGED <<credentials, tJar, tResp, tBody, tLog, tResult>>

DownloadTorrentCall ==
    /\ TrackerEnter
    /\ UNCHANGED <<routerVars, daemonVars>>

\* the first LoginToTracker
TrackerLogin ==
    /\ tpc = "login"
    /\ \E o \in LoginOutcomes :
         LET r == LoginToTracker(trackerName, o, tJar, CookieNow(tLog))
         IN /\ tLog' = tLog \o r.log
            /\ tJar' = r.jar
            /\ tpc' = IF r.err = "" THEN "get" ELSE "reconnect login"
    /\ UNCHANGED <<credentials, trackerName, tResp, tBody, tResult>>
    /\ UNCHANGED <<routerVars, daemonVars>>

ReconnectAfterLoginIgnoringFailure ==
    /\ tpc = "reconnect login"
    /\ \E o \in LoginOutcomes :
         LET r == TrackerReconnect(trackerName, "login", o)
         IN /\ tLog' = tLog \o r.log
            /\ tJar' = r.jar
            /\ tpc' = "get"
            /\ UNCHANGED tResult
    /\ UNCHANGED <<credentials, trackerName, tResp, tBody>>
    /\ UNCHANGED <<routerVars, daemonVars>>

\* Reconnect after a failed login
ReconnectAfterLogin ==
    /\ tpc = "reconnect login"
    /\ \E o \in LoginOutcomes :
         LET r == TrackerReconnect(trackerName, "login", o)
         IN /\ tLog' = tLog \o r.log
            /\ tJar' = r.jar
            /\ IF r.err = ""
               THEN tpc' = "get" /\ UNCHANGED tResult
               ELSE TrackerFail("reconnection failed")
    /\ UNCHANGED <<credentials, trackerName, tResp, tBody>>
    /\ UNCHANGED <<routerVars, daemonVars>>

\* the TrackerURLs lookup and the first download GET
DownloadGet ==
    /\ tpc = "get"
    /\ IF trackerName \notin TrackerURLs
       THEN /\ TrackerFail("unknown tracker")
            /\ UNCHANGED <<tLog, tResp>>
       ELSE \E o \in GetOutcomes :
              /\ tLog' = Append(tLog, <<"GET", o, tJar>>)
              /\ IF o = TransportError
                 THEN tpc' = "reconnect transport" /\ UNCHANGED tResp
                 ELSE tpc' = "status" /\ tResp' = o
              /\ UNCHANGED tResult
    /\ UNCHANGED <<credentials, trackerName, tJar, tBody>>
    /\ UNCHANGED <<routerVars, daemonVars>>

ReconnectAfterTransportErrorIgnoringFailure ==
    /\ tpc = "reconnect transport"
    /\ \E o \in LoginOutcomes :
         LET r == TrackerReconnect(trackerName, "transport", o)
         IN /\ tLog' = tLog \o r.log
            /\ tJar' = r.jar
            /\ tpc' = "get retry"
            /\ UNCHANGED tResult
    /\ UNCHANGED <<credentials, trackerName, tResp, tBody>>
    /\ UNCHANGED <<routerVars, daemonVars>>

\* Reconnect after the download GET failed at transport level
ReconnectAfterTransportError ==
    /\ tpc = "reconnect transport"
    /\ \E o \in LoginOutcomes :
         LET r == TrackerReconnect(trackerName, "transport", o)
         IN /\ tLog' = tLog \o r.log
            /\ tJar' = r.jar
            /\ IF r.err = ""
               THEN tpc' = "get retry" /\ UNCHANGED tResult
               ELSE TrackerFail("reconnection failed after download error")
    /\ UNCHANGED <<credentials, trackerName, tResp, tBody>>
    /\ UNCHANGED <<routerVars, daemonVars>>

\* the download GET again, after that reconnect
DownloadGetRetry ==
    /\ tpc = "get retry"
    /\ \E o \in GetOutcomes :
         /\ tLog' = Append(tLog, <<"GET", o, tJar>>)
         /\ IF o = TransportError
            THEN TrackerFail("download request failed after reconnection")
                 /\ UNCHANGED tResp
            ELSE tpc' = "status" /\ tResp' = o /\ UNCHANGED tResult
    /\ UNCHANGED <<credentials, trackerName, tJar, tBody>>
    /\ UNCHANGED <<routerVars, daemonVars>>

\* if resp.StatusCode != http.StatusOK { ... }
CheckStatus ==
    /\ tpc = "status"
    /\ IF tResp = StatusOK
       THEN tpc' = "read" /\ UNCHANGED tResult
       ELSE IF StatusNeedsReconnect(tResp)
       THEN tpc' = "reconnect status" /\ UNCHANGED tResult
       ELSE TrackerFail("download failed with status code")
    /\ UNCHANGED <<credentials, trackerName, tJar, tResp, tBody, tLog>>
    /\ UNCHANGED <<routerVars, daemonVars>>

\* Reconnect after a 401 or 403
ReconnectAfterStatus ==
    /\ tpc = "reconnect status"
    /\ \E o \in LoginOutcomes :
         LET r == TrackerReconnect(trackerName, "status", o)
         IN /\ tLog' = tLog \o r.log
            /\ tJar' = r.jar
            /\ IF r.err = ""
               THEN tpc' = "get again" /\ UNCHANGED tResult
               ELSE TrackerFail("reconnection failed after unauthorized error")
    /\ UNCHANGED <<credentials, trackerName, tResp, tBody>>
    /\ UNCHANGED <<routerVars, daemonVars>>

DownloadGetAgainLooping ==
    /\ tpc = "get again"
    /\ \E o \in GetOutcomes :
         /\ tLog' = Append(tLog, <<"GET", o, tJar>>)
         /\ IF o = TransportError
            THEN TrackerFail("download request failed after reconnection")
                 /\ UNCHANGED tResp
            ELSE tpc' = "status" /\ tResp' = o /\ UNCHANGED tResult
    /\ UNCHANGED <<credentials, trackerName, tJar, tBody>>
    /\ UNCHANGED <<routerVars, daemonVars>>

\* the download GET again, after that reconnect
DownloadGetAgain ==
    /\ tpc = "get again"
    /\ \E o \in GetOutcomes :
         /\ tLog' = Append(tLog, <<"GET", o, tJar>>)
         /\ IF o = TransportError
            THEN TrackerFail("download request failed after reconnection")
                 /\ UNCHANGED tResp
            ELSE /\ tResp' = o
                 /\ IF o # StatusOK
                    THEN TrackerFail("download failed with status code after reconnection")
                    ELSE tpc' = "read" /\ UNCHANGED tResult
    /\ UNCHANGED <<credentials, trackerName, tJar, tBody>>
    /\ UNCHANGED <<routerVars, daemonVars>>

ValidateBodyNonEmptyOnly(body) ==
    IF body.len = 0 THEN "downloaded torrent is empty" ELSE ""

\* the checks DownloadTorrent makes on the payload: "" when it is accepted
ValidateBody(body) ==
    IF body.len = 0 THEN "downloaded torrent is empty"
    ELSE IF body.len < MinTorrentLen \/ body.first # "d"
    THEN "invalid torrent file format"
    ELSE ""

\* io.ReadAll(resp.Body) and the payload checks
ReadBody ==
    /\ tpc = "read"
    /\ \/ /\ TrackerFail("failed to read response")
          /\ UNCHANGED tBody
       \/ \E body \in Bodies :
            /\ tBody' = body
            /\ tpc' = "done"
            /\ tResult' = IF ValidateBody(body) = "" THEN "ok" ELSE ValidateBody(body)
    /\ UNCHANGED <<credentials, trackerName, tJar, tResp, tLog>>
    /\ UNCHANGED <<routerVars, daemonVars>>

\* DownloadTorrent has returned; the client is ready for the next call
TrackerLeave ==
    /\ tpc = "done"
    /\ tpc' = "idle"
    /\ trackerName' = ""
    /\ tResp' = ""
    /\ tBody' = NoBody
    /\ tLog' = <<>>
    /\ tResult' = ""
    /\ tJar' = EarlierCookies(tJar)
    /\ UNCHANGED credentials

DownloadTorrentReturn ==
    /\ TrackerLeave
    /\ UNCHANGED <<routerVars, daemonVars>>

\* ------------------------------------------------------------------------
\* Daemon client: QBittorrentClient
\* ------------------------------------------------------------------------
\* most torrents the daemon lists
MaxTorrents == 3

\* added_on values of listed torrents
AddedOnValues == {0, 10, 20, 30}

\* the lists a torrents/info body can decode to: the AddedOn of each entry
TorrentLists ==
    UNION {[1..n -> AddedOnValues] : n \in 0..MaxTorrents}

\* what the login POST can end in: no response, or a status and a body
DaemonLoginOutcomes ==
    {<<TransportError, "">>, <<StatusOK, "Ok.">>, <<StatusOK, "Fails.">>,
     <<StatusForbidden, "">>}

ListStatuses == {StatusOK, StatusForbidden}

\* payloads AddTorrent is called with
UploadBodies == {NoBody, [len |-> MaxBodyLen, first |-> "d"]}
SavePaths    == {"", "MOVIES_PATH"}

\* the operations that post a list of hashes
PostOps == {"DeleteTorrents", "PauseTorrents", "ResumeTorrents"}

DaemonCalls ==
    {<<"GetTorrents">>, <<"Reconnect">>} \cup
    {<<op>> : op \in PostOps} \cup
    {<<"AddTorrent", b, path>> : b \in UploadBodies, path \in SavePaths}

\* the request each operation sends for itself
OwnRequest(op) ==
    CASE op = "AddTorrent"     -> "POST torrents/add"
      [] op = "GetTorrents"    -> "GET torrents/info"
      [] op = "DeleteTorrents" -> "POST torrents/delete"
      [] op = "PauseTorrents"  -> "POST torrents/pause"
      [] op = "ResumeTorrents" -> "POST torrents/resume"

\* positions at which ensureLoggedIn is entered, and at which it calls Login
EnsurePositions == {"ensure", "relist ensure"}
LoginPositions  == {"login", "relist login"}

\* where the operation goes on when ensureLoggedIn, or the Login of Reconnect,
\* returned nil
AfterEnsure ==
    IF qpc \in {"relist ensure", "relist login"} THEN "relist get"
    ELSE IF qpc = "reconnect login" THEN "done"
    ELSE IF qOp[1] = "AddTorrent" THEN "validate"
    ELSE IF qOp[1] = "GetTorrents" THEN "list get"
    ELSE "post"

DaemonFail(msg) ==
    /\ qpc' = "done"
    /\ qResult' = msg

\* a caller enters a daemon operation; each but Reconnect begins with
\* ensureLoggedIn
DaemonCall ==
    /\ qpc = "idle"
    /\ \E op \in DaemonCalls :
         /\ qOp' = op
         /\ qpc' = IF op[1] = "Reconnect" THEN "reconnect" ELSE "ensure"
    /\ UNCHANGED <<isLoggedIn, qLog, qTorrents, qResult, qJar, qReturned, spc, sLogin>>
    /\ UNCHANGED <<routerVars, trackerVars>>

EnsureLoggedInProbeTrusting ==
    /\ qpc \in EnsurePositions
    /\ isLoggedIn
    /\ \E o \in GetOutcomes :
         /\ qLog' = Append(qLog, <<"GET app/version", o, qJar>>)
         /\ qpc' = AfterEnsure
    /\ UNCHANGED <<isLoggedIn, qOp, qTorrents, qResult, qJar, qReturned, spc, sLogin>>
    /\ UNCHANGED <<routerVars, trackerVars>>

\* ensureLoggedIn with isLoggedIn set: the app/version probe
EnsureLoggedInProbe ==
    /\ qpc \in EnsurePositions
    /\ isLoggedIn
    /\ \E o \in GetOutcomes :
         /\ qLog' = Append(qLog, <<"GET app/version", o, qJar>>)
         /\ IF o = StatusOK
            THEN qpc' = AfterEnsure /\ UNCHANGED isLoggedIn
            ELSE /\ isLoggedIn' = FALSE
                 /\ qpc' = IF qpc = "ensure" THEN "login" ELSE "relist login"
    /\ UNCHANGED <<qOp, qTorrents, qResult, qJar, qReturned, spc, sLogin>>
    /\ UNCHANGED <<routerVars, trackerVars>>

\* Login, as ensureLoggedIn and Reconnect call it; the SID cookie of a login
\* that succeeds takes the place of the one the jar held
DaemonLogin ==
    /\ \/ qpc \in EnsurePositions /\ ~isLoggedIn
       \/ qpc \in LoginPositions
       \/ qpc = "reconnect login"
    /\ \E o \in DaemonLoginOutcomes :
         /\ qLog' = Append(qLog, <<"POST auth/login", o[1], qJar, o[2]>>)
         /\ sLogin' = IF o[1] = StatusOK /\ o[2] = "Ok." THEN "ok" ELSE "failed"
         /\ IF o[1] = TransportError
            THEN DaemonFail("login request failed") /\ UNCHANGED <<isLoggedIn, qJar>>
            ELSE IF o[1] # StatusOK \/ o[2] # "Ok."
            THEN DaemonFail("login failed") /\ UNCHANGED <<isLoggedIn, qJar>>
            ELSE /\ isLoggedIn' = TRUE
                 /\ qJar' = {CookieNow(qLog)}
                 /\ qpc' = AfterEnsure
                 /\ qResult' = IF AfterEnsure = "done" THEN "ok" ELSE qResult
    /\ UNCHANGED <<qOp, qTorrents, qReturned, spc>>
    /\ UNCHANGED <<routerVars, trackerVars>>

\* Reconnect up to its call of Login: a client with a fresh jar, isLoggedIn
\* reset
DaemonReconnect ==
    /\ qpc = "reconnect"
    /\ qLog' = Append(qLog, <<"Reconnect">>)
    /\ qJar' = {}
    /\ isLoggedIn' = FALSE
    /\ qpc' = "reconnect login"
    /\ UNCHANGED <<qOp, qTorrents, qResult, qReturned, spc, sLogin>>
    /\ UNCHANGED <<routerVars, trackerVars>>

\* AddTorrent: if len(torrentBytes) == 0
ValidateUpload ==
    /\ qpc = "validate"
    /\ IF qOp[2].len = 0
       THEN DaemonFail("torrent file is empty")
       ELSE qpc' = "upload" /\ UNCHANGED qResult
    /\ UNCHANGED <<isLoggedIn, qOp, qLog, qTorrents, qJar, qReturned, spc, sLogin>>
    /\ UNCHANGED <<routerVars, trackerVars>>

\* AddTorrent: the multipart POST to torrents/add
Upload ==
    /\ qpc = "upload"
    /\ \E o \in GetOutcomes :
         /\ qLog' = Append(qLog, <<"POST torrents/add", o, qJar>>)
         /\ IF o = TransportError
            THEN DaemonFail("request failed")
            ELSE IF o # StatusOK
            THEN DaemonFail("request failed with status")
            ELSE qpc' = "relist ensure" /\ UNCHANGED qResult
    /\ UNCHANGED <<isLoggedIn, qOp, qTorrents, qJar, qReturned, spc, sLogin>>
    /\ UNCHANGED <<routerVars, trackerVars>>

\* DeleteTorrents and torrentAction after ensureLoggedIn: the form POST
PostHashes ==
    /\ qpc = "post"
    /\ \E o \in GetOutcomes :
         /\ qLog' = Append(qLog, <<OwnRequest(qOp[1]), o, qJar>>)
         /\ qpc' = "done"
         /\ qResult' = IF o = TransportError THEN "request failed"
                       ELSE IF o # StatusOK THEN "failed with status"
                       ELSE "ok"
    /\ UNCHANGED <<isLoggedIn, qOp, qTorrents, qJar, qReturned, spc, sLogin>>
    /\ UNCHANGED <<routerVars, trackerVars>>

\* the loop of AddTorrent over the listed torrents from entry i on, newestTime
\* and newest (the entry newestTorrent points to, 0 for nil) as they stand
RECURSIVE NewestFrom(_, _, _, _)
NewestFrom(list, i, newestTime, newest) ==
    IF i > Len(list) THEN newest
    ELSE IF list[i] > newestTime
    THEN NewestFrom(list, i + 1, list[i], i)
    ELSE NewestFrom(list, i + 1, newestTime, newest)

NewestTorrentSharedLoopVariable(list) ==
    IF NewestFrom(list, 1, 0, 0) = 0 THEN 0 ELSE Len(list)

\* AddTorrent's choice among the listed torrents: the entry newestTorrent points
\* to after the loop, 0 for nil. Each iteration has its own t (the module uses
\* range-over-func, so it is built as Go 1.23 or later), so &t keeps the entry
\* of the iteration that took it.
NewestTorrent(list) == NewestFrom(list, 1, 0, 0)

\* GetTorrents after ensureLoggedIn: the torrents/info GET and the decoding of
\* its body, for the caller or for AddTorrent's search of the new torrent
ListTorrents ==
    /\ qpc \in {"list get", "relist get"}
    /\ \E status \in ListStatuses \cup {TransportError} :
         /\ qLog' = Append(qLog, <<"GET torrents/info", status, qJar>>)
         /\ IF status = TransportError
            THEN DaemonFail("failed to get torrents")
                 /\ UNCHANGED <<qTorrents, qReturned>>
            ELSE \/ DaemonFail("failed to parse response")
                    /\ UNCHANGED <<qTorrents, qReturned>>
                 \/ \E list \in TorrentLists :
                      /\ qTorrents' = list
                      /\ qpc' = "done"
                      /\ qReturned' = IF qpc = "list get" THEN 0
                                      ELSE NewestTorrent(list)
                      /\ qResult' =
                           IF qpc = "list get" THEN "ok"
                           ELSE IF NewestTorrent(list) = 0
                           THEN "could not find newly added torrent"
                           ELSE "ok"
    /\ UNCHANGED <<isLoggedIn, qOp, qJar, spc, sLogin>>
    /\ UNCHANGED <<routerVars, trackerVars>>

\* the operation has returned; the client is ready for the next call
DaemonLeave ==
    /\ qpc = "done"
    /\ qpc' = "idle"
    /\ qOp' = <<>>
    /\ qLog' = <<>>
    /\ qTorrents' = <<>>
    /\ qResult' = ""
    /\ qReturned' = 0
    /\ qJar' = EarlierCookies(qJar)
    /\ UNCHANGED <<isLoggedIn, spc, sLogin>>

DaemonReturn ==
    /\ DaemonLeave
    /\ UNCHANGED <<routerVars, trackerVars>>

\* ------------------------------------------------------------------------
\* The daemon session shared by the handler goroutines: ensureLoggedIn and
\* Reconnect statement by statement, one goroutine per update, no lock
\* ------------------------------------------------------------------------
SessionIdle == [op |-> "", at |-> "idle"]

At(h, op, at) == spc[h] = [op |-> op, at |-> at]

Goto(h, at) == spc' = [spc EXCEPT ![h].at = at]

\* a handler enters ensureLoggedIn (through a daemon operation) or Reconnect
\* (through tryReconnect or handleReconnectCommand)
SessionEnter(h) ==
    /\ spc[h].at = "idle"
    /\ \/ spc' = [spc EXCEPT ![h] = [op |-> "ensureLoggedIn", at |-> "test"]]
       \/ spc' = [spc EXCEPT ![h] = [op |-> "Reconnect", at |-> "replace"]]
    /\ UNCHANGED <<isLoggedIn, qpc, qOp, qLog, qTorrents, qResult, qJar, qReturned, sLogin>>
    /\ UNCHANGED <<routerVars, trackerVars>>

\* if q.isLoggedIn {
SessionTestFlag(h) ==
    /\ At(h, "ensureLoggedIn", "test")
    /\ Goto(h, IF isLoggedIn THEN "probe" ELSE "login")
    /\ UNCHANGED <<isLoggedIn, qpc, qOp, qLog, qTorrents, qResult, qJar, qReturned, sLogin>>
    /\ UNCHANGED <<routerVars, trackerVars>>

\* the app/version GET and the test of its answer
SessionProbe(h) ==
    /\ At(h, "ensureLoggedIn", "probe")
    /\ \E o \in GetOutcomes : Goto(h, IF o = StatusOK THEN "returned" ELSE "mark")
    /\ UNCHANGED <<isLoggedIn, qpc, qOp, qLog, qTorrents, qResult, qJar, qReturned, sLogin>>
    /\ UNCHANGED <<routerVars, trackerVars>>

\* q.isLoggedIn = false, in ensureLoggedIn
SessionMarkExpired(h) ==
    /\ At(h, "ensureLoggedIn", "mark")
    /\ isLoggedIn' = FALSE
    /\ Goto(h, "login")
    /\ UNCHANGED <<qpc, qOp, qLog, qTorrents, qResult, qJar, qReturned, sLogin>>
    /\ UNCHANGED <<routerVars, trackerVars>>

\* Login up to the test of the answer
SessionLoginPost(h) ==
    /\ spc[h].at = "login"
    /\ \E o \in DaemonLoginOutcomes :
         IF o[1] = StatusOK /\ o[2] = "Ok."
         THEN /\ Goto(h, "set")
              /\ qJar' = {CookieNow(qLog)}
              /\ sLogin' = "ok"
         ELSE /\ Goto(h, "failed")
              /\ sLogin' = "failed"
              /\ UNCHANGED qJar
    /\ UNCHANGED <<isLoggedIn, qpc, qOp, qLog, qTorrents, qResult, qReturned>>
    /\ UNCHANGED <<routerVars, trackerVars>>

\* q.isLoggedIn = true, in Login
SessionSetFlag(h) ==
    /\ spc[h].at = "set"
    /\ isLoggedIn' = TRUE
    /\ Goto(h, "returned")
    /\ UNCHANGED <<qpc, qOp, qLog, qTorrents, qResult, qJar, qReturned, sLogin>>
    /\ UNCHANGED <<routerVars, trackerVars>>

\* q.client = http.Client{Jar: jar, ...}, in Reconnect
SessionReplaceClient(h) ==
    /\ At(h, "Reconnect", "replace")
    /\ qJar' = {}
    /\ Goto(h, "reset")
    /\ UNCHANGED <<isLoggedIn, qpc, qOp, qLog, qTorrents, qResult, qReturned, sLogin>>
    /\ UNCHANGED <<routerVars, trackerVars>>

\* q.isLoggedIn = false, in Reconnect
SessionResetFlag(h) ==
    /\ At(h, "Reconnect", "reset")
    /\ isLoggedIn' = FALSE
    /\ Goto(h, "login")
    /\ UNCHANGED <<qpc, qOp, qLog, qTorrents, qResult, qJar, qReturned, sLogin>>
    /\ UNCHANGED <<routerVars, trackerVars>>

\* ensureLoggedIn or Reconnect has returned to its caller
SessionReturn(h) ==
    /\ spc[h].at \in {"returned", "failed"}
    /\ spc' = [spc EXCEPT ![h] = SessionIdle]
    /\ UNCHANGED <<isLoggedIn, qpc, qOp, qLog, qTorrents, qResult, qJar, qReturned, sLogin>>
    /\ UNCHANGED <<routerVars, trackerVars>>

\* ------------------------------------------------------------------------
\* DownloadAndAddTorrent over the two clients
\* ------------------------------------------------------------------------
\* torrentBytes, err := trackerClient.DownloadTorrent(trackerName, id)
StartDownload ==
    /\ qpc = "idle"
    /\ TrackerEnter
    /\ dReturn' = NoReturn
    /\ mSent' = << <<"edit", "Processing download request...", "">> >>
    /\ UNCHANGED <<mpc, mData, mPage, mRetry, mStore, mCalls>>
    /\ UNCHANGED <<handlerVars, configVars, linkVars, daemonVars>>

DownloadFailedSwallowed ==
    /\ tResult # "ok"
    /\ TrackerLeave
    /\ dReturn' = [text |-> <<>>, err |-> NoError]
    /\ Say("edit", "Torrent successfully added", "")
    /\ UNCHANGED <<mpc, mData, mPage, mRetry, mStore, mCalls>>
    /\ UNCHANGED <<handlerVars, configVars, linkVars, daemonVars>>

\* if err != nil { return "", fmt.Errorf("failed to download torrent: %w", err) }
DownloadFailed ==
    /\ tResult # "ok"
    /\ TrackerLeave
    /\ dReturn' = [text |-> <<>>, err |-> Errorf("failed to download torrent", tResult)]
    /\ Say("error", "Download failed", tResult)
    /\ UNCHANGED <<mpc, mData, mPage, mRetry, mStore, mCalls>>
    /\ UNCHANGED <<handlerVars, configVars, linkVars, daemonVars>>

\* qbtClient.AddTorrent(torrentBytes, savePath) with the payload DownloadTorrent
\* returned
AddDownloaded ==
    /\ tpc = "done"
    /\ tResult = "ok"
    /\ qpc = "idle"
    /\ \E path \in SavePaths : qOp' = <<"AddTorrent", tBody, path>>
    /\ qpc' = "ensure"
    /\ tpc' = "idle"
    /\ trackerName' = ""
    /\ tResp' = ""
    /\ tBody' = NoBody
    /\ tLog' = <<>>
    /\ tResult' = ""
    /\ tJar' = EarlierCookies(tJar)
    /\ UNCHANGED credentials
    /\ UNCHANGED <<isLoggedIn, qLog, qTorrents, qResult, qJar, qReturned, spc, sLogin>>
    /\ UNCHANGED routerVars

\* AddTorrent has returned: the wrapped error, or the success text built from
\* the record it returned
AddFinished ==
    /\ DaemonLeave
    /\ IF qResult = "ok"
       THEN /\ \E t \in TorrentInfos :
                  dReturn' = [text |-> SuccessText(t), err |-> NoError]
            /\ Say("edit", "Torrent successfully added", "")
       ELSE /\ dReturn' = [text |-> <<>>,
                           err |-> Errorf("failed to add torrent to qBittorrent", qResult)]
            /\ Say("error", "Download failed", qResult)
    /\ UNCHANGED <<mpc, mData, mPage, mRetry, mStore, mCalls>>
    /\ UNCHANGED <<handlerVars, configVars, linkVars, trackerVars>>

\* ------------------------------------------------------------------------
\* Management callbacks: handleCallbackQuery from line 237 on, step by step
\* ------------------------------------------------------------------------
\* the callback data of management buttons, well-formed and not
ManageTokens ==
    { <<"junk">>,
      <<"bogus", Colon, "abc">>,
      <<"pause", Colon>>,
      <<"manage", Colon, "abc">>,
      <<"manage", Colon, "zzz">>,
      <<"manage", Colon, "abc", Colon, "page", Colon, "1">>,
      <<"manage", Colon, "abc", Colon, "page", Colon, "x">>,
      <<"list", Colon, "foo">>,
      <<"list", Colon, "page">> }
    \cup { <<v[1], Colon, h>> : v \in LifecycleVerbs, h \in {"abc", "zzz"} }
    \cup { <<"list", Colon, "page", Colon, n>> : n \in {"0", "1", "2", "-1", "x"} }

\* the commands whose handlers retry after tryReconnect
ManageCommands == {<<"/status">>, <<"/torrent">>, <<"/torrent", "ubuntu">>, <<"/list">>}

\* strconv.Atoi with the error dropped: 0 for text that is not a number
Atoi(part) ==
    CASE part = <<"0">>  -> 0
      [] part = <<"1">>  -> 1
      [] part = <<"2">>  -> 2
      [] part = <<"-1">> -> -1
      [] OTHER           -> 0

\* maxButtons of the list keyboard handleListPagination builds
ListPageSize == 20

\* what the daemon holds: len(torrents) and the Hash fields
Stores ==
    { [size |-> 0,  hashes |-> {}],
      [size |-> 1,  hashes |-> {"ABC"}],
      [size |-> 21, hashes |-> {"def"}],
      [size |-> 21, hashes |-> {"ABC", "def"}] }

EmptyStore == [size |-> 0, hashes |-> {}]

\* strings.ToLower on a hash
ToLower(hash) == IF hash = "ABC" THEN "abc" ELSE hash

\* strings.EqualFold
EqualFold(a, b) == ToLower(a) = ToLower(b)

GetTorrentByHashAssumingPresent(hashes, hash) == TRUE

\* GetTorrentByHash over the decoded list: whether an entry is returned
GetTorrentByHash(hashes, hash) ==
    /\ Len(hash) = 1
    /\ \E t \in hashes : EqualFold(t, ToLower(hash[1]))

\* CreateTorrentListKeyboard: the slice torrents[startIndex:endIndex]
CreateTorrentListKeyboard(len, maxButtons, currentPage) ==
    LET startIndex == currentPage * maxButtons
        endIndex   == IF startIndex + maxButtons > len THEN len
                      ELSE startIndex + maxButtons
    IN [panic |-> startIndex < 0 \/ startIndex > endIndex \/ endIndex > len,
        from  |-> startIndex,
        to    |-> endIndex]

MParts  == SplitColon(mData)
MAction == MParts[1]
MHash   == MParts[2]


\* the err != nil branch of handleTorrentDetails and handleTorrentAction: a
\* temporary message and tryReconnect the first time, the final error after
\* the retry
Failed(err) ==
    IF ~mRetry
    THEN /\ Say("message",
                IF MAction = <<"manage">> THEN "Error accessing torrent details"
                ELSE "Error performing action", err)
         /\ mpc' = "reconnect"
    ELSE /\ Say("error", "Error even after reconnection", err)
         /\ mpc' = "done"

\* handleCallbackQuery, lines 237-273
ManageDispatch ==
    /\ mpc = "idle"
    /\ \E data \in ManageTokens :
         /\ mData' = data
         /\ IF ~ContainsColon(data)
            THEN /\ Say("error", "Unknown callback data", "")
                 /\ mpc' = "done"
                 /\ mPage' = 0
            ELSE LET parts  == SplitColon(data)
                     action == parts[1]
                 IN IF Len(parts) < 2
                    THEN /\ Say("error", "Invalid callback data", "")
                         /\ mpc' = "done"
                         /\ mPage' = 0
                    ELSE CASE action = <<"manage">> ->
                                /\ mpc' = "details"
                                /\ mPage' = IF Len(parts) > 2 /\ parts[3] = <<"page">>
                                                /\ Len(parts) > 3
                                            THEN Atoi(parts[4]) ELSE 0
                                /\ mSent' = mSent
                           [] action \in LifecycleVerbs ->
                                /\ mpc' = "lookup"
                                /\ mPage' = 0
                                /\ mSent' = mSent
                           [] action = <<"list">> ->
                                IF Len(parts) > 2 /\ parts[2] = <<"page">>
                                THEN /\ mpc' = "list"
                                     /\ mPage' = Atoi(parts[3])
                                     /\ mSent' = mSent
                                ELSE /\ mpc' = "done"
                                     /\ mPage' = 0
                                     /\ mSent' = mSent
                           [] OTHER ->
                                /\ Say("error", "Unknown action", "")
                                /\ mpc' = "done"
                                /\ mPage' = 0
    /\ UNCHANGED <<mRetry, mStore, mCalls>>
    /\ UNCHANGED <<handlerVars, configVars, dReturn, linkVars, trackerVars, daemonVars>>

\* handleCommand: status, torrent and list for an allowed user
CommandDispatch ==
    /\ mpc = "idle"
    /\ \E data \in ManageCommands :
         /\ mData' = data
         /\ IF data = <<"/torrent">>
            THEN /\ Say("message", "Please provide a torrent name to search for", "")
                 /\ mpc' = "done"
            ELSE /\ mSent' = mSent
                 /\ mpc' = "fetch"
    /\ UNCHANGED <<mPage, mRetry, mStore, mCalls>>
    /\ UNCHANGED <<handlerVars, configVars, dReturn, linkVars, trackerVars, daemonVars>>

\* handleStatusCommand, handleTorrentCommand, handleListCommand: the listing,
\* tryReconnect after its first failure, the final error after its second
FetchForCommand ==
    /\ mpc = "fetch"
    /\ \/ /\ Called("GetTorrents", "error", {})
          /\ IF ~mRetry
             THEN mpc' = "reconnect" /\ mSent' = mSent
             ELSE /\ Say("error", "Error even after reconnection", "list request failed")
                  /\ mpc' = "done"
       \/ /\ Called("GetTorrents", "ok", mStore.hashes)
          /\ IF mData = <<"/list">> /\ mStore.size > 0
                /\ CreateTorrentListKeyboard(mStore.size, ListPageSize, 0).panic
             THEN mpc' = "panicked" /\ mSent' = mSent
             ELSE /\ Say("message",
                         IF mData = <<"/list">> /\ mStore.size > 0
                         THEN "Select a torrent to manage:"
                         ELSE IF mStore.size = 0 /\ mData # <<"/torrent", "ubuntu">>
                         THEN "No torrents found"
                         ELSE "command result", "")
                  /\ mpc' = "done"
    /\ UNCHANGED <<mData, mPage, mRetry, mStore>>
    /\ UNCHANGED <<handlerVars, configVars, dReturn, linkVars, trackerVars, daemonVars>>

\* GetTorrentByHash against a list fetched now; found goes on to next
Lookup(next) ==
    \/ /\ Called("GetTorrents", "error", {})
       /\ Failed("list request failed")
    \/ /\ Called("GetTorrents", "ok", mStore.hashes)
       /\ IF GetTorrentByHash(mStore.hashes, MHash)
          THEN mpc' = next /\ mSent' = mSent
          ELSE Failed("torrent not found")

\* HandleTorrentAction: torrent, err := qbt.GetTorrentByHash(hash)
LookupForAction ==
    /\ mpc = "lookup"
    /\ Lookup(IF MAction = <<"info">> THEN "refresh" ELSE "act")
    /\ UNCHANGED <<mData, mPage, mRetry, mStore>>
    /\ UNCHANGED <<handlerVars, configVars, dReturn, linkVars, trackerVars, daemonVars>>

\* fmt.Sprintf("%t", deleteFiles)
FormatBool(b) == IF b THEN "true" ELSE "false"

\* the form DeleteTorrents and torrentAction post for a call of the client
ActionRequest(c) ==
    CASE c[1] = "PauseTorrents"  ->
             [path |-> "torrents/pause", hashes |-> c[2], deleteFiles |-> "absent"]
      [] c[1] = "ResumeTorrents" ->
             [path |-> "torrents/resume", hashes |-> c[2], deleteFiles |-> "absent"]
      [] c[1] = "DeleteTorrents" ->
             [path |-> "torrents/delete", hashes |-> c[2],
              deleteFiles |-> FormatBool(c[3])]

\* HandleTorrentAction: PauseTorrents, ResumeTorrents or DeleteTorrents
PerformAction ==
    /\ mpc = "act"
    /\ LET c == CHOOSE x \in ActionCall(MAction, MHash) : TRUE
       IN \/ /\ Called(c[1], "ok", {ActionRequest(c)})
             /\ Say("edit", "action performed", "")
             /\ mpc' = "done"
          \/ /\ Called(c[1], "error", {ActionRequest(c)})
             /\ Failed("action request failed")
    /\ UNCHANGED <<mData, mPage, mRetry, mStore>>
    /\ UNCHANGED <<handlerVars, configVars, dReturn, linkVars, trackerVars, daemonVars>>

\* HandleTorrentAction, case "info": the second GetTorrentByHash
RefreshInfo ==
    /\ mpc = "refresh"
    /\ Lookup("shown")
    /\ UNCHANGED <<mData, mPage, mRetry, mStore>>
    /\ UNCHANGED <<handlerVars, configVars, dReturn, linkVars, trackerVars, daemonVars>>

\* handleTorrentDetails: HandleSpecificTorrentStatus(qbt, "manage:"+hash)
LookupForDetails ==
    /\ mpc = "details"
    /\ Lookup("shown")
    /\ UNCHANGED <<mData, mPage, mRetry, mStore>>
    /\ UNCHANGED <<handlerVars, configVars, dReturn, linkVars, trackerVars, daemonVars>>

\* the edit that shows the torrent's details
ShowDetails ==
    /\ mpc = "shown"
    /\ Say("edit", "torrent details", "")
    /\ mpc' = "done"
    /\ UNCHANGED <<mData, mPage, mRetry, mStore, mCalls>>
    /\ UNCHANGED <<handlerVars, configVars, dReturn, linkVars, trackerVars, daemonVars>>

\* tryReconnect: qbtClient.Reconnect()
TryReconnect ==
    /\ mpc = "reconnect"
    /\ \/ /\ Called("Reconnect", "ok", {})
          /\ mSent' = Append(mSent, <<"message", "Lost connection", "">>)
          /\ mpc' = "test"
       \/ /\ Called("Reconnect", "error", {})
          /\ mSent' = mSent \o << <<"message", "Lost connection", "">>,
                                  <<"edit", "Failed to reconnect", "reconnect failed">> >>
          /\ mpc' = "done"
    /\ UNCHANGED <<mData, mPage, mRetry, mStore>>
    /\ UNCHANGED <<handlerVars, configVars, dReturn, linkVars, trackerVars, daemonVars>>

TestConnectionRetryingRegardless ==
    /\ mpc = "test"
    /\ \/ /\ Called("GetTorrents", "ok", mStore.hashes)
          /\ mSent' = mSent \o << <<"edit", "Successfully reconnected", "">>,
                                  <<"delete", "temporary message", "">> >>
       \/ /\ Called("GetTorrents", "error", {})
          /\ Say("edit", "Reconnection failed during testing", "list request failed")
    /\ mRetry' = TRUE
    /\ mpc' = IF mData \in ManageCommands THEN "fetch"
              ELSE IF MAction = <<"manage">> THEN "details" ELSE "lookup"
    /\ UNCHANGED <<mData, mPage, mStore>>
    /\ UNCHANGED <<handlerVars, configVars, dReturn, linkVars, trackerVars, daemonVars>>

\* tryReconnect: the test GetTorrents, then back to the operation
TestConnection ==
    /\ mpc = "test"
    /\ \/ /\ Called("GetTorrents", "ok", mStore.hashes)
          /\ mSent' = mSent \o << <<"edit", "Successfully reconnected", "">>,
                                  <<"delete", "temporary message", "">> >>
          /\ mRetry' = TRUE
          /\ mpc' = IF mData \in ManageCommands THEN "fetch"
                    ELSE IF MAction = <<"manage">> THEN "details" ELSE "lookup"
       \/ /\ Called("GetTorrents", "error", {})
          /\ Say("edit", "Reconnection failed during testing", "list request failed")
          /\ mRetry' = mRetry
          /\ mpc' = "done"
    /\ UNCHANGED <<mData, mPage, mStore>>
    /\ UNCHANGED <<handlerVars, configVars, dReturn, linkVars, trackerVars, daemonVars>>

\* handleListPagination
ListPage ==
    /\ mpc = "list"
    /\ \/ /\ Called("GetTorrents", "error", {})
          /\ Say("error", "Error getting torrent list", "list request failed")
          /\ mpc' = "done"
       \/ /\ Called("GetTorrents", "ok", mStore.hashes)
          /\ IF mStore.size = 0
             THEN /\ Say("message", "No torrents found", "")
                  /\ mpc' = "done"
             ELSE IF CreateTorrentListKeyboard(mStore.size, ListPageSize, mPage).panic
             THEN /\ mSent' = mSent
                  /\ mpc' = "panicked"
             ELSE /\ Say("edit", "Select a torrent to manage:", "")
                  /\ mpc' = "done"
    /\ UNCHANGED <<mData, mPage, mRetry, mStore>>
    /\ UNCHANGED <<handlerVars, configVars, dReturn, linkVars, trackerVars, daemonVars>>

\* the handler returns
ManageReturn ==
    /\ mpc = "done"
    /\ mpc' = "idle"
    /\ mData' = <<>>
    /\ mPage' = 0
    /\ mRetry' = FALSE
    /\ mCalls' = <<>>
    /\ mSent' = <<>>
    /\ UNCHANGED mStore
    /\ UNCHANGED <<handlerVars, configVars, dReturn, linkVars, trackerVars, daemonVars>>

\* torrents are added to and removed from the daemon by others while a
\* callback is being handled
DaemonListChanges ==
    /\ mpc \notin {"idle", "done", "panicked"}
    /\ mStore' \in Stores \ {mStore}
    /\ UNCHANGED <<mpc, mData, mPage, mRetry, mCalls, mSent>>
    /\ UNCHANGED <<handlerVars, configVars, dReturn, linkVars, trackerVars, daemonVars>>

\* ------------------------------------------------------------------------
\* ProcessTorrentLink applied to a text
\* ------------------------------------------------------------------------
ProcessLink ==
    /\ processed = NoOutput
    /\ processed' = ProcessTorrentLink(linkText)
    /\ UNCHANGED <<handlerVars, configVars, dReturn, linkText, manageVars, trackerVars, daemonVars>>

\* ------------------------------------------------------------------------
\* Initial state: NewBot, NewTorrentTrackerClient, NewQBittorrentClient
\* ------------------------------------------------------------------------
InitHandlers ==
    /\ pendingLinks = {}
    /\ pc = [h \in Handlers |-> "idle"]
    /\ update = [h \in Handlers |-> NoUpdate]
    /\ torrentLink = [h \in Handlers |-> NoLink]
    /\ hadPending = [h \in Handlers |-> FALSE]
    /\ calls = [h \in Handlers |-> {}]
    /\ result = [h \in Handlers |-> NoResult]
    /\ last = NoneHandled
    /\ dReturn = NoReturn

InitManage ==
    /\ mpc = "idle"
    /\ mData = <<>>
    /\ mPage = 0
    /\ mRetry = FALSE
    /\ mCalls = <<>>
    /\ mSent = <<>>

\* the bot runs on the configuration of an environment with every path set
InitLoaded ==
    /\ env = FullEnv
    /\ config = LoadConfig(env)

InitRouter ==
    /\ InitHandlers
    /\ InitLoaded
    /\ linkText = NoLink
    /\ processed = NoOutput
    /\ InitManage
    /\ mStore = EmptyStore

InitTrackerIdle ==
    /\ credentials = TrackerNames
    /\ tpc = "idle"
    /\ trackerName = ""
    /\ tJar = {}
    /\ tResp = ""
    /\ tBody = NoBody
    /\ tLog = <<>>
    /\ tResult = ""

InitDaemonIdle ==
    /\ isLoggedIn = FALSE
    /\ qpc = "idle"
    /\ qOp = <<>>
    /\ qLog = <<>>
    /\ qTorrents = <<>>
    /\ qResult = ""
    /\ qJar = {}
    /\ qReturned = 0
    /\ spc = [h \in Handlers |-> SessionIdle]
    /\ sLogin = "none"

Init == InitRouter /\ InitTrackerIdle /\ InitDaemonIdle

Next ==
    \E h \in Handlers :
        \/ \E u \in Updates :
              \/ HandleTorrentLink(h, u)
              \/ HandleCommand(h, u)
              \/ IgnoreMessage(h, u)
              \/ HandleCallbackQuery(h, u)
        \/ ReadPendingLink(h)
        \/ DownloadAndAddTorrent(h)
        \/ ClearPendingLink(h)

Spec == Init /\ [][Next]_vars

\* the tracker client alone, under every credentials map the configuration
\* can hold
InitTracker ==
    /\ InitRouter
    /\ InitDaemonIdle
    /\ credentials \in SUBSET TrackerNames
    /\ tpc = "idle"
    /\ trackerName = ""
    /\ tJar = {}
    /\ tResp = ""
    /\ tBody = NoBody
    /\ tLog = <<>>
    /\ tResult = ""

NextTracker ==
    \/ DownloadTorrentCall
    \/ TrackerLogin
    \/ ReconnectAfterLogin
    \/ DownloadGet
    \/ ReconnectAfterTransportError
    \/ DownloadGetRetry
    \/ CheckStatus
    \/ ReconnectAfterStatus
    \/ DownloadGetAgain
    \/ ReadBody
    \/ DownloadTorrentReturn

SpecTracker == InitTracker /\ [][NextTracker]_vars

NextDaemon ==
    \/ DaemonCall
    \/ EnsureLoggedInProbe
    \/ DaemonLogin
    \/ DaemonReconnect
    \/ ValidateUpload
    \/ Upload
    \/ PostHashes
    \/ ListTorrents
    \/ DaemonReturn

SpecDaemon == Init /\ [][NextDaemon]_vars

\* the two clients, one call at a time
NextClients ==
    \/ qpc = "idle" /\ NextTracker
    \/ tpc = "idle" /\ NextDaemon

SpecClients == InitTracker /\ [][NextClients]_vars

NextSession ==
    \E h \in Handlers :
        \/ SessionEnter(h)
        \/ SessionTestFlag(h)
        \/ SessionProbe(h)
        \/ SessionMarkExpired(h)
        \/ SessionLoginPost(h)
        \/ SessionSetFlag(h)
        \/ SessionReplaceClient(h)
        \/ SessionResetFlag(h)
        \/ SessionReturn(h)

SpecSession == Init /\ [][NextSession]_vars

NextDownloadAndAdd ==
    \/ StartDownload
    \/ TrackerLogin
    \/ ReconnectAfterLogin
    \/ DownloadGet
    \/ ReconnectAfterTransportError
    \/ DownloadGetRetry
    \/ CheckStatus
    \/ ReconnectAfterStatus
    \/ DownloadGetAgain
    \/ ReadBody
    \/ DownloadFailed
    \/ AddDownloaded
    \/ EnsureLoggedInProbe
    \/ DaemonLogin
    \/ ValidateUpload
    \/ Upload
    \/ ListTorrents
    \/ AddFinished

SpecDownloadAndAdd == InitTracker /\ [][NextDownloadAndAdd]_vars

\* ProcessTorrentLink on every text of LinkTexts
InitLink ==
    /\ InitHandlers
    /\ InitLoaded
    /\ InitTrackerIdle
    /\ InitDaemonIdle
    /\ linkText \in LinkTexts
    /\ processed = NoOutput
    /\ InitManage
    /\ mStore = EmptyStore

NextLink == ProcessLink

SpecLink == InitLink /\ [][NextLink]_vars

\* one management callback at a time, against every list the daemon can hold
InitManagement ==
    /\ InitHandlers
    /\ InitLoaded
    /\ InitTrackerIdle
    /\ InitDaemonIdle
    /\ linkText = NoLink
    /\ processed = NoOutput
    /\ InitManage
    /\ mStore \in Stores

NextManagement ==
    \/ ManageDispatch
    \/ CommandDispatch
    \/ FetchForCommand
    \/ LookupForAction
    \/ PerformAction
    \/ RefreshInfo
    \/ LookupForDetails
    \/ ShowDetails
    \/ TryReconnect
    \/ TestConnection
    \/ ListPage
    \/ ManageReturn
    \/ DaemonListChanges

SpecManagement == InitManagement /\ [][NextManagement]_vars

\* a call that has started runs on: every HTTP exchange ends, by an answer or
\* by the client's 30 s timeout
SpecTrackerFair == SpecTracker /\ WF_vars(NextTracker)

\* ========================================================================
\* Claims about the router (specification Spec)
\* ========================================================================
\* the goroutine that returned last served a category selection: the test of
\* handleCallbackQuery passed and handleTorrentDownload ran
DownloadHandled ==
    /\ last.update.kind = "callback"
    /\ HasSuffixDot(last.update.data)
    /\ last.hadPending

\* C1 (as claimed): when handleTorrentDownload has ended, with success or with
\* any failure, the requester has no entry in pendingLinks.
C1_PendingClearedOnEveryOutcome ==
    DownloadHandled => EntriesOf(pendingLinks, last.update.chat) = {}

LinkHandled ==
    /\ last.update.kind = "message"
    /\ TorrentLinkRegexMatch(last.update.data)

\* C2: the table never holds two links of one requester, and when
\* handleTorrentLink has stored a link over a pending one (two links in
\* sequence, no category choice in between) the requester's only entry is the
\* second link.
C2_LastSubmittedLinkWins ==
    /\ \A c \in Chats : Cardinality(EntriesOf(pendingLinks, c)) <= 1
    /\ LinkHandled =>
          EntriesOf(pendingLinks, last.update.chat)
              = {<<last.update.chat, last.update.data>>}

C2_Witness ==
    /\ LinkHandled
    /\ last.replaced = LinkA
    /\ last.update.data = LinkNoId
    /\ pendingLinks = {<<last.update.chat, LinkNoId>>}

\* what handleTorrentDownload tells the chat
DownloadReplies ==
    {"Invalid category selected", "Error processing link", "Download failed",
     "Torrent successfully added"}

\* a category-shaped token was served while its requester had no pending link
IdleCategoryHandled(rec) ==
    /\ rec.update.kind = "callback"
    /\ HasSuffixDot(rec.update.data)
    /\ ~rec.hadPending

\* C3: a category-shaped token that finds no pending link starts no
\* orchestration (no DownloadTorrent, no AddTorrent) and leaves pendingLinks
\* as it was.
C3_IdleCategoryTokenStartsNothing ==
    /\ [](IdleCategoryHandled(last) =>
             CallOps(last.calls) \cap {"DownloadTorrent", "AddTorrent"} = {})
    /\ [](IdleCategoryHandled(last) => last.reply \notin DownloadReplies)
    /\ [][(pc' = pc /\ IdleCategoryHandled(last')) => pendingLinks' = pendingLinks]_vars

C3_Witness ==
    /\ IdleCategoryHandled(last)
    /\ last.update.data = <<"Movies", Dot>>
    /\ last.reply = "Unknown callback data"

\* C4 (as claimed): nothing a requester outside the allow-list sends changes
\* pendingLinks, starts a download or reaches the daemon.
C4_UnauthorizedChangesNothing ==
    \A c \in Chats \ AllowedUsers :
        /\ EntriesOf(pendingLinks, c) = {}
        /\ \A h \in Handlers : pc[h] # "idle" => update[h].chat # c
        /\ last.update.chat = c => last.calls = {}

\* ========================================================================
\* Claims about DownloadTorrent (specifications SpecTracker, SpecTrackerFair)
\* ========================================================================
\* positions in the log of the running call
Gets          == {i \in 1..Len(tLog) : tLog[i][1] = "GET"}
Logins        == {i \in 1..Len(tLog) : tLog[i][1] = "POST login"}
Reconnects    == {i \in 1..Len(tLog) : tLog[i][1] = "Reconnect"}
ReconnectsAfter(cause) == {i \in Reconnects : tLog[i][2] = cause}

TrackerFailed == tpc = "done" /\ tResult # "ok"

\* every login of the call succeeded and every download GET was answered 401
AlwaysUnauthorized ==
    /\ Logins # {}
    /\ \A i \in Logins : tLog[i][2] = StatusOK
    /\ Gets # {}
    /\ \A i \in Gets : tLog[i][2] = StatusUnauthorized

\* C6: with logins that succeed and a 401 to every download GET, a call issues
\* exactly two GETs and exactly one Reconnect, and then fails.
C6_TwoGetsOneReconnectOn401 ==
    AlwaysUnauthorized =>
        /\ Cardinality(Gets) <= 2
        /\ Cardinality(Reconnects) <= 1
        /\ tpc = "done" =>
              /\ Cardinality(Gets) = 2
              /\ Cardinality(Reconnects) = 1
              /\ tResult # "ok"

C6_Witness ==
    /\ AlwaysUnauthorized
    /\ TrackerFailed
    /\ Cardinality(Gets) = 2

\* C7 (as claimed): a call performs at most one Reconnect and at most two
\* download GETs, whatever the remote answers.
C7_AtMostOneReconnectPerCall ==
    Cardinality(Reconnects) <= 1 /\ Cardinality(Gets) <= 2

\* C7 (amended): a call reconnects at most once at each of its three retry
\* points (failed login, failed GET, 401/403 answer), so it performs at most
\* three Reconnects and at most three download GETs.
C7_AtMostThreeReconnectsPerCall ==
    /\ \A cause \in {"login", "transport", "status"} :
          Cardinality(ReconnectsAfter(cause)) <= 1
    /\ Cardinality(Reconnects) <= 3
    /\ Cardinality(Gets) <= 3

C7_Witness ==
    /\ tpc = "done"
    /\ Cardinality(Reconnects) = 3
    /\ Cardinality(Gets) = 3

\* C8: a call reconnects and retries at most once after a transport failure of
\* the GET and at most once after a 401/403, and every call that has started
\* returns.
C8_OneRetryPerFailureClassAndReturns ==
    /\ [](/\ Cardinality(ReconnectsAfter("transport")) <= 1
          /\ Cardinality(ReconnectsAfter("status")) <= 1
          /\ Cardinality(Gets) <= 1 + Cardinality(ReconnectsAfter("transport"))
                                    + Cardinality(ReconnectsAfter("status")))
    /\ (tpc # "idle") ~> (tpc = "done")

C8_Witness ==
    /\ tpc = "done"
    /\ Cardinality(ReconnectsAfter("transport")) = 1
    /\ Cardinality(ReconnectsAfter("status")) = 1
    /\ tResult = "ok"

FirstGet == CHOOSE i \in Gets : \A j \in Gets : i <= j

\* C9: when the first download GET fails at transport level, Reconnect comes
\* next; if it fails no further GET is issued; if it succeeds the GET is issued
\* once more, and a transport failure of that retry ends the call with nothing
\* after it.
C9_TransportFailureRetriedOnce ==
    (Gets # {} /\ tLog[FirstGet][2] = TransportError) =>
        LET g == FirstGet
            n == Len(tLog)
        IN /\ n = g => tpc = "reconnect transport"
           /\ n > g =>
                /\ n >= g + 2
                /\ tLog[g+1] = <<"Reconnect", "transport">>
                /\ tLog[g+2][1] = "POST login"
                /\ IF tLog[g+2][2] # StatusOK
                   THEN n = g + 2 /\ TrackerFailed
                   ELSE /\ n = g + 2 => tpc = "get retry"
                        /\ n > g + 2 =>
                             /\ tLog[g+3][1] = "GET"
                             /\ tLog[g+3][2] = TransportError =>
                                   n = g + 3 /\ TrackerFailed

C9_Witness ==
    /\ Gets # {}
    /\ tLog[FirstGet][2] = TransportError
    /\ Len(tLog) = FirstGet + 3
    /\ tLog[FirstGet + 3][1] = "GET"
    /\ tLog[FirstGet + 3][2] = TransportError
    /\ TrackerFailed

\* a status that is neither 2xx nor 401/403
IsOtherStatus(o) ==
    o \in Statuses \ {StatusOK, "204", StatusUnauthorized, StatusForbidden}

\* C10: a download response with a status that is neither 2xx nor 401/403
\* ends the call in failure: nothing follows it, neither a Reconnect (the jar
\* is not replaced) nor another GET.
C10_OtherStatusFailsImmediately ==
    \A i \in Gets :
        IsOtherStatus(tLog[i][2]) =>
            /\ i = Len(tLog)
            /\ tpc \in {"status", "done"}
            /\ tpc = "done" => tResult # "ok"

C10_Witness ==
    /\ TrackerFailed
    /\ Reconnects = {}
    /\ Len(tLog) = 2
    /\ tLog[2][1] = "GET" /\ tLog[2][2] = "404"

\* the running call read a non-empty payload that does not begin with "d"
ForeignPayload == tpc = "done" /\ tBody.len > 0 /\ tBody.first # "d"

\* C11: a non-empty payload whose first byte is not "d" makes DownloadTorrent
\* fail with the format error, and DownloadAndAddTorrent then returns without
\* entering AddTorrent and without any request to the daemon.
C11_ForeignPayloadNeverReachesDaemon ==
    /\ [](ForeignPayload =>
            /\ tResult = "invalid torrent file format"
            /\ qpc = "idle" /\ qOp = <<>> /\ qLog = <<>>)
    /\ [][ForeignPayload => UNCHANGED daemonVars]_vars

C11_Witness ==
    /\ ForeignPayload
    /\ tBody.len >= MinTorrentLen
    /\ isLoggedIn

\* the payload ReadBody obtained is in tBody
PayloadRead == tpc = "done" /\ tResult # "failed to read response" /\ tLog # <<>>
               /\ tLog[Len(tLog)][1] = "GET" /\ tLog[Len(tLog)][2] = StatusOK

\* C12 (as claimed): after a 200 answer the payload is accepted exactly when
\* it is non-empty and begins with "d", whatever its length.
C12_AcceptedIffNonEmptyAndSentinel ==
    PayloadRead => (tResult = "ok" <=> (tBody.len > 0 /\ tBody.first = "d"))

\* C13 (as claimed): a site without credentials makes the call fail with the
\* credentials error, without Reconnect and without any HTTP request.
C13_MissingCredentialsNoRetry ==
    (tpc = "done" /\ trackerName \notin credentials) =>
        /\ tLog = <<>>
        /\ tResult = "credentials not found for tracker"

\* the first LoginToTracker of the running call has failed
InitialLoginFailed ==
    /\ tpc \notin {"idle", "login"}
    /\ \/ tLog = <<>>
       \/ tLog[1][1] # "POST login"
       \/ tLog[1][2] # StatusOK

\* the log position of the Reconnect that answers a failed first login
LoginReconnect == CHOOSE i \in ReconnectsAfter("login") : TRUE

LoginReconnectFailed ==
    \/ Len(tLog) = LoginReconnect
    \/ tLog[LoginReconnect + 1][1] # "POST login"
    \/ tLog[LoginReconnect + 1][2] # StatusOK

\* C14: a failed first login is answered by exactly one Reconnect; when the
\* login of that Reconnect fails too the call ends with the reconnection error
\* and no download GET, and when it succeeds the call goes on to the GET.
C14_FailedLoginReconnectsOnce ==
    /\ Cardinality(ReconnectsAfter("login")) <= 1
    /\ (InitialLoginFailed /\ tpc # "reconnect login") =>
          /\ Cardinality(ReconnectsAfter("login")) = 1
          /\ IF LoginReconnectFailed
             THEN tpc = "done" /\ tResult = "reconnection failed" /\ Gets = {}
             ELSE tpc = "get" \/ Gets # {}

C14_Witness ==
    /\ tpc = "done"
    /\ Len(tLog) >= 4
    /\ tLog[1][1] = "POST login" /\ tLog[1][2] = StatusForbidden
    /\ tLog[2] = <<"Reconnect", "login">>
    /\ tLog[3][1] = "POST login" /\ tLog[3][2] = StatusOK
    /\ tLog[4][1] = "GET"

\* ========================================================================
\* Claims about the daemon client (specification SpecDaemon)
\* ========================================================================
EmptyUpload == qOp # <<>> /\ qOp[1] = "AddTorrent" /\ qOp[2].len = 0

\* C5 (as claimed): AddTorrent with an empty payload sends no HTTP request at
\* all and fails with the validation error, whatever isLoggedIn is.
C5_EmptyPayloadSendsNothing ==
    EmptyUpload =>
        /\ qLog = <<>>
        /\ qpc = "done" => qResult = "torrent file is empty"

\* the requests the operations send for themselves
OwnRequests == {OwnRequest(op) : op \in PostOps \cup {"AddTorrent", "GetTorrents"}}

ProbePassed(e) == e[1] = "GET app/version" /\ e[2] = StatusOK

LoginSucceeded(e) == e[1] = "POST auth/login" /\ e[2] = StatusOK /\ e[4] = "Ok."

LoginErrors == {"login request failed", "login failed"}

\* C15: every operation runs ensureLoggedIn before its own request. With the
\* flag set exactly one probe is sent; a probe that fails, by its status or at
\* transport level, clears the flag and is followed by Login; a request of the
\* operation itself follows only a probe that passed or a login that succeeded,
\* and a failed login ends the call with the login error.
C15_EnsureLoggedInBeforeEveryRequest ==
    /\ [](\A i \in 1..Len(qLog) :
            /\ qLog[i][1] \in OwnRequests =>
                 /\ i > 1
                 /\ ProbePassed(qLog[i-1]) \/ LoginSucceeded(qLog[i-1])
            /\ (qLog[i][1] = "GET app/version" /\ i < Len(qLog)) =>
                 IF qLog[i][2] = StatusOK
                 THEN qLog[i+1][1] \in OwnRequests
                 ELSE qLog[i+1][1] = "POST auth/login"
            /\ (qLog[i][1] = "POST auth/login" /\ ~LoginSucceeded(qLog[i])) =>
                 /\ i = Len(qLog)
                 /\ qpc = "done"
                 /\ qResult \in LoginErrors)
    /\ [][(qpc \in EnsurePositions /\ isLoggedIn) =>
            \E o \in GetOutcomes :
               /\ qLog' = Append(qLog, <<"GET app/version", o, qJar>>)
               /\ o # StatusOK => (~isLoggedIn' /\ qpc' \in LoginPositions)]_vars

C15_Witness ==
    /\ qpc = "done"
    /\ qOp[1] = "DeleteTorrents"
    /\ Len(qLog) = 3
    /\ qLog[1][1] = "GET app/version" /\ qLog[1][2] = TransportError
    /\ LoginSucceeded(qLog[2])
    /\ qLog[3][1] = "POST torrents/delete"

\* C16 (as claimed): isLoggedIn is true only while the most recent login
\* exchange was the success signal; so it is false when an ensureLoggedIn or a
\* Reconnect has just ended in an authentication error.
C16_FlagFollowsLastLogin ==
    isLoggedIn => sLogin = "ok"

\* every request a log holds after a Reconnect carries only cookies obtained
\* after that Reconnect
FreshAfterReconnect(log) ==
    \A i \in 1..Len(log) :
        (log[i][1] # "Reconnect" /\ ReconnectCount(SubSeq(log, 1, i)) > 0) =>
            \A c \in log[i][3] : c > ReconnectCount(SubSeq(log, 1, i))

\* C17: Reconnect, of the daemon client and of the tracker client, puts a
\* fresh empty jar in place before it logs in: its login request and every
\* request after it carry no cookie from before the Reconnect, and the jar
\* holds none, whether the login succeeds or not.
C17_NoCookieSurvivesReconnect ==
    /\ FreshAfterReconnect(tLog)
    /\ FreshAfterReconnect(qLog)
    /\ ReconnectCount(tLog) > 0 => \A c \in tJar : c > ReconnectCount(tLog)
    /\ ReconnectCount(qLog) > 0 => \A c \in qJar : c > ReconnectCount(qLog)

C17_Witness ==
    /\ tpc = "done"
    /\ Len(tLog) = 5
    /\ tLog[1][1] = "POST login" /\ tLog[1][3] # {}
    /\ tLog[2][1] = "GET" /\ tLog[2][3] # {}
    /\ tLog[3][1] = "Reconnect"
    /\ tLog[4][1] = "POST login" /\ tLog[4][3] = {}
    /\ tLog[5][1] = "GET" /\ tLog[5][3] # {}

\* goroutines whose next statement reads, resp. writes, pendingLinks
ReadsPending(h)  == pc[h] = "read"
WritesPending(h) == pc[h] = "clear"

\* C18 (as claimed): no two handlers are at an access of pendingLinks at the
\* same time when one of the accesses is a write.
C18_PendingLinksAccessSerialized ==
    \A h1, h2 \in Handlers :
        (h1 # h2 /\ WritesPending(h1)) => ~(ReadsPending(h2) \/ WritesPending(h2))

\* a handler inside Reconnect with the client replaced and the login not done
MidReconnect(h) ==
    spc[h].op = "Reconnect" /\ spc[h].at \in {"reset", "login", "set"}

\* a handler inside ensureLoggedIn
InsideEnsure(h) ==
    spc[h].op = "ensureLoggedIn" /\ spc[h].at \in {"test", "probe", "mark", "login", "set"}

\* a handler whose next statement writes isLoggedIn
WritesFlag(h) == spc[h].at \in {"mark", "set", "reset"}

\* C19 (as claimed): while a handler is inside Reconnect past the replacement
\* of the client, no other handler is inside ensureLoggedIn, and a handler
\* that writes isLoggedIn is alone in the session.
C19_ReconnectAtomic ==
    \A h1, h2 \in Handlers :
        h1 # h2 =>
            /\ MidReconnect(h1) => ~InsideEnsure(h2)
            /\ WritesFlag(h1) => spc[h2].at \in {"idle", "returned", "failed"}

\* AddTorrent has returned a record
AddReturned == qpc = "done" /\ qOp[1] = "AddTorrent" /\ qResult = "ok"

\* C20: after a successful upload AddTorrent returns the entry of the re-listed
\* torrents with the greatest AddedOn, the first of them in list order when
\* several share it; for 10, 30, 20 it is the entry with 30. A list with a
\* positive AddedOn always yields a record.
C20_NewestIsFirstMaximum ==
    /\ AddReturned =>
         /\ qReturned \in 1..Len(qTorrents)
         /\ \A j \in 1..Len(qTorrents) : qTorrents[j] <= qTorrents[qReturned]
         /\ \A j \in 1..(qReturned - 1) : qTorrents[j] < qTorrents[qReturned]
         /\ qTorrents = <<10, 30, 20>> => qReturned = 2
    /\ (qpc = "done" /\ qOp[1] = "AddTorrent" /\ qTorrents # <<>>
          /\ \E j \in 1..Len(qTorrents) : qTorrents[j] > 0) => AddReturned

C20_Witness ==
    /\ AddReturned
    /\ qTorrents = <<10, 30, 20>>
    /\ qReturned = 2

\* AddTorrent has uploaded, re-listed and decoded the list
Relisted ==
    /\ qpc = "done"
    /\ qOp[1] = "AddTorrent"
    /\ qResult \in {"ok", "could not find newly added torrent"}

\* C21 (as claimed): after a successful upload AddTorrent fails with the
\* not-found error exactly when the re-listing is empty; a non-empty
\* re-listing yields a record whatever the AddedOn of its entries.
C21_NotFoundOnlyOnEmptyList ==
    Relisted => (qResult = "could not find newly added torrent" <=> qTorrents = <<>>)

\* the call ended with the torrents/info GET, answered with this status
ListAnswered(status) ==
    /\ qpc = "done"
    /\ qLog # <<>>
    /\ qLog[Len(qLog)][1] = "GET torrents/info"
    /\ qLog[Len(qLog)][2] = status

\* C30 (as claimed): a list request answered with a status that is not 2xx
\* makes the operation fail, and no list is taken from that answer.
C30_NoListFromErrorStatus ==
    \A status \in ListStatuses \ {StatusOK} :
        ListAnswered(status) => (qResult # "ok" /\ qTorrents = <<>>)

\* the verbs of the management branch of handleCallbackQuery
ManagementVerbs == LifecycleVerbs \cup {<<"manage">>, <<"list">>}

IsManagementToken(data) ==
    ContainsColon(data) /\ SplitColon(data)[1] \in ManagementVerbs

\* C23 (as claimed): the handling of a management token never reads
\* pendingLinks and never starts a tracker download, whatever the subject
\* string of the token and whether or not the requester has a pending link.
C23_ManagementNeverReadsPending ==
    (last.update.kind = "callback" /\ IsManagementToken(last.update.data))
        => /\ last.torrentLink = NoLink
           /\ "DownloadTorrent" \notin CallOps(last.calls)
           /\ last.reply # "Invalid category selected"

\* a handler that returned after entering DownloadAndAddTorrent
DownloadStarted == "DownloadTorrent" \in CallOps(last.calls)

Parts(text) == {text[i] : i \in 1..Len(text)}

\* C27: for a category token of a configured category from a requester with a
\* pending link, DownloadTorrent gets the site and id extracted from that
\* link, AddTorrent gets exactly the save path configured for that category,
\* and the success reply holds the returned torrent's name and that save path.
C27_SelectionPassesPathSiteAndId ==
    DownloadStarted =>
        LET key == last.update.data
            p   == ProcessTorrentLink(last.torrentLink)
        IN /\ key \in DOMAIN TorrentCategories
           /\ last.hadPending
           /\ p.err = ""
           /\ \A c \in last.calls :
                 /\ c[1] = "DownloadTorrent" => c = <<"DownloadTorrent", p.tracker, p.id>>
                 /\ c[1] = "AddTorrent" => c = <<"AddTorrent", TorrentCategories[key]>>
           /\ last.reply = "Torrent successfully added" =>
                 /\ "AddTorrent" \in CallOps(last.calls)
                 /\ last.added \in TorrentInfos
                 /\ last.added.name \in Parts(last.text)
                 /\ last.text[Len(last.text)] = TorrentCategories[key]

C27_Witness ==
    /\ last.reply = "Torrent successfully added"
    /\ last.update.data = <<"Movies", Dot>>
    /\ last.torrentLink = LinkA
    /\ last.calls = {<<"DownloadTorrent", "rutracker", "555">>,
                     <<"AddTorrent", "MOVIES_PATH">>}
    /\ last.added.name = "ubuntu.iso"
    /\ last.text[3] = "ubuntu.iso"

\* C26: DownloadAndAddTorrent enters AddTorrent only after DownloadTorrent
\* succeeded; a failed download is returned wrapped with the download stage
\* and nothing is sent to the daemon, a failed add is returned wrapped with
\* the add stage, and no failure is returned as success.
C26_StagesWrappedInOrder ==
    /\ [][(tpc = "done" /\ tpc' = "idle") =>
            IF tResult = "ok"
            THEN /\ qpc' = "ensure"
                 /\ qOp'[1] = "AddTorrent"
                 /\ qOp'[2] = tBody
                 /\ dReturn' = NoReturn
            ELSE /\ dReturn' = [text |-> <<>>,
                                err |-> <<"failed to download torrent", tResult>>]
                 /\ UNCHANGED daemonVars]_vars
    /\ [][(qpc = "idle" /\ qpc' # "idle") => (tpc = "done" /\ tResult = "ok")]_vars
    /\ [][(qpc = "done" /\ qpc' = "idle") =>
            IF qResult = "ok"
            THEN dReturn'.err = NoError /\ dReturn'.text # <<>>
            ELSE dReturn' = [text |-> <<>>,
                             err |-> <<"failed to add torrent to qBittorrent", qResult>>]]_vars

C26_Witness ==
    /\ tpc = "idle"
    /\ qpc = "idle"
    /\ dReturn.err = <<"failed to add torrent to qBittorrent",
                       "could not find newly added torrent">>

\* ProcessTorrentLink has returned for linkText
LinkProcessed == processed # NoOutput

ParamStarts == {"?", "&", "/forum/dl.php?"}

\* where the leftmost URL of a known site starts in the text
UrlStart(text) ==
    CHOOSE i \in 1..Len(text) :
        /\ i + 2 <= Len(text)
        /\ text[i] \in Schemes /\ text[i+1] \in TrackerNames /\ text[i+2] \in TLDs
        /\ \A j \in 1..(i-1) :
              ~(j + 2 <= Len(text) /\ text[j] \in Schemes
                /\ text[j+1] \in TrackerNames /\ text[j+2] \in TLDs)

\* the site named by the domain of that URL
UrlSite(text) == text[UrlStart(text) + 1]

\* the positions of the URL: it ends before the next blank
InUrl(text, i) ==
    /\ i >= UrlStart(text)
    /\ \A j \in UrlStart(text)..i : text[j] # " "

\* the values the URL's query gives to the parameter named exactly key
UrlIds(text, key) ==
    {text[i+1] : i \in {j \in 2..(Len(text) - 1) :
                          /\ InUrl(text, j + 1)
                          /\ text[j] = key
                          /\ text[j-1] \in ParamStarts
                          /\ text[j+1] \in Digits}}

\* C28 (as claimed): for a text holding a URL of a known site, the site
\* returned is the one of that URL's domain and the id returned is the value
\* of that site's id parameter in the URL, never digits that follow a longer
\* parameter name or a site name from elsewhere in the text.
C28_SiteAndIdComeFromTheUrl ==
    (LinkProcessed /\ TorrentLinkRegexMatch(linkText) /\ processed.err = "")
        => /\ processed.tracker = UrlSite(linkText)
           /\ processed.id \in UrlIds(linkText, IdKey(UrlSite(linkText)))

\* some id pattern finds digits somewhere in the text
SomeIdInText(text) ==
    \E i \in 1..(Len(text) - 1) : text[i] \in {"t=", "id="} /\ text[i+1] \in Digits

\* C29: a text without a tracker URL gets the no-match error, a text with one
\* from which no numeric id can be extracted gets a different, extraction
\* error, and no failure comes with a site or an id.
C29_TwoDistinctFailures ==
    LinkProcessed =>
        /\ ~TorrentLinkRegexMatch(linkText)
              <=> processed.err = "invalid torrent link format"
        /\ (TorrentLinkRegexMatch(linkText) /\ ~SomeIdInText(linkText))
              => processed.err \in {"could not extract ID from rutracker link",
                                    "could not extract ID from kinozal link"}
        /\ (TorrentLinkRegexMatch(linkText) /\ UrlIds(linkText, "t=") = {}
                /\ UrlIds(linkText, "id=") = {} /\ processed.err # "")
              => processed.err \in {"could not extract ID from rutracker link",
                                    "could not extract ID from kinozal link"}
        /\ processed.err # "" => (processed.tracker = "" /\ processed.id = "")
        /\ processed.err = "" => (processed.tracker \in TrackerNames
                                  /\ processed.id \in Digits)

C29_Witness ==
    /\ LinkProcessed
    /\ linkText = <<"https://", "rutracker", ".org", "/forum/viewtopic.php",
                    "?", "f=", "555">>
    /\ processed.err = "could not extract ID from rutracker link"

\* a lifecycle token is being handled
LifecycleHandled ==
    mpc # "idle" /\ ContainsColon(mData) /\ MAction \in LifecycleVerbs

ActionOps == {"PauseTorrents", "ResumeTorrents", "DeleteTorrents"}

\* the list holds a torrent whose hash is the token's, letter case aside
HashListed(hashes, hash) ==
    Len(hash) = 1 /\ \E t \in hashes : ToLower(t) = ToLower(hash[1])

\* the i-th daemon operation was a list request that was answered with a list
\* in which the hash is absent
ListedWithout(i, hash) ==
    /\ mCalls[i][1] = "GetTorrents"
    /\ mCalls[i][2] = "ok"
    /\ ~HashListed(mCalls[i][3], hash)

\* C22: a pause, resume or delete request is sent only right after a list
\* fetched in the same handling in which the token's hash is present; when the
\* hash is absent from the fetched list the user gets the not-found error, on
\* the first attempt and on the retry after tryReconnect alike.
C22_UnknownHashNeverActedOn ==
    LifecycleHandled =>
        /\ \A i \in 1..Len(mCalls) :
              mCalls[i][1] \in ActionOps =>
                  /\ i > 1
                  /\ mCalls[i-1][1] = "GetTorrents"
                  /\ mCalls[i-1][2] = "ok"
                  /\ HashListed(mCalls[i-1][3], MHash)
        /\ (Len(mCalls) >= 1 /\ ListedWithout(1, MHash)) =>
              /\ mSent # <<>>
              /\ mSent[1] = <<"message", "Error performing action", "torrent not found">>
        /\ (mpc = "done" /\ mRetry /\ ListedWithout(Len(mCalls), MHash)) =>
              mSent[Len(mSent)] =
                  <<"error", "Error even after reconnection", "torrent not found">>

C22_Witness ==
    /\ mpc = "done"
    /\ mData = <<"pause", Colon, "zzz">>
    /\ mRetry
    /\ Len(mCalls) = 4
    /\ ListedWithout(1, MHash)
    /\ mCalls[2][1] = "Reconnect"
    /\ ListedWithout(4, MHash)
    /\ mCalls[4][3] # {}
    /\ mSent[Len(mSent)][3] = "torrent not found"

IsNumber(part) == part \in {<<"0">>, <<"1">>, <<"2">>, <<"-1">>}

\* a token one of the bot's own keyboards can carry
WellFormed(data) ==
    /\ ContainsColon(data)
    /\ LET parts == SplitColon(data)
       IN CASE parts[1] = <<"manage">> ->
                  \/ Len(parts) = 2
                  \/ Len(parts) = 4 /\ parts[3] = <<"page">> /\ IsNumber(parts[4])
            [] parts[1] \in LifecycleVerbs -> Len(parts) = 2
            [] parts[1] = <<"list">> ->
                  Len(parts) = 3 /\ parts[2] = <<"page">> /\ IsNumber(parts[3])
            [] OTHER -> FALSE

\* C24 (as claimed): every unrecognized or malformed token is answered with
\* an error sent by sendErrorMessage; none is dropped without a message and
\* none is served with a default put in place of the malformed part.
C24_MalformedTokenGetsError ==
    (mpc = "done" /\ ~WellFormed(mData)) =>
        /\ mCalls = <<>>
        /\ Len(mSent) = 1
        /\ mSent[1][1] = "error"

\* C25 (as claimed): no token and no list size makes the handling panic.
C25_NoPanic == mpc # "panicked"

\* C32 (as claimed): completing a download removes only the entry whose link
\* was downloaded, so a link the requester submitted while the download was
\* running is still pending afterwards.
C32_DeleteTakesOnlyDownloadedLink ==
    last.reply = "Torrent successfully added" => last.removed = last.torrentLink

\* handler h is inside DownloadAndAddTorrent or just past it
Orchestrating(h) == pc[h] \in {"download", "clear"}

\* C33 (as claimed): the first category token moves the requester to idle, so
\* no two orchestration runs of one requester work on the same link.
C33_OneRunPerStoredLink ==
    \A h1, h2 \in Handlers :
        (h1 # h2 /\ Orchestrating(h1) /\ Orchestrating(h2)
            /\ update[h1].chat = update[h2].chat)
        => torrentLink[h1] # torrentLink[h2]

\* a token shaped like a category whose key is not configured, from a
\* requester with a pending link
UnknownCategoryHandled ==
    /\ last.update.kind = "callback"
    /\ HasSuffixDot(last.update.data)
    /\ last.update.data \notin DOMAIN TorrentCategories
    /\ last.hadPending

\* C35: such a token is answered "Invalid category selected" before the link
\* is processed, and neither DownloadTorrent nor AddTorrent is entered.
C35_UnknownCategoryRejectedFirst ==
    UnknownCategoryHandled =>
        /\ last.reply = "Invalid category selected"
        /\ last.calls = {}

C35_Witness ==
    /\ UnknownCategoryHandled
    /\ last.update.data = <<"Bogus", Dot>>
    /\ last.torrentLink = LinkNoId
    /\ last.reply = "Invalid category selected"

\* C37: the pendingLinks entry of a chat changes only in a step of a handler
\* serving an update of that chat, and a category token downloads the link
\* stored under its own chat.
C37_RequestersIndependent ==
    /\ [][\A c \in Chats :
            EntriesOf(pendingLinks', c) # EntriesOf(pendingLinks, c)
                => last'.update.chat = c]_vars
    /\ [][\A h \in Handlers :
            (pc[h] = "read" /\ pc'[h] = "download")
                => <<update[h].chat, torrentLink'[h]>> \in pendingLinks]_vars

C37_Witness ==
    /\ last.reply = "Torrent successfully added"
    /\ last.update.chat = 101
    /\ EntriesOf(pendingLinks, 101) = {}
    /\ EntriesOf(pendingLinks, 202) = {<<202, LinkA>>}

\* positions of mCalls holding an operation of ops
CallsOf(ops) == {i \in 1..Len(mCalls) : mCalls[i][1] \in ops}

\* a flow that retries after tryReconnect is being served
RetryingFlow ==
    /\ mpc # "idle"
    /\ \/ mData \in ManageCommands
       \/ ContainsColon(mData) /\ MAction \in LifecycleVerbs \cup {<<"manage">>}

\* C34: in the flows that retry, Reconnect runs at most once per handling;
\* the operation is called again only after Reconnect and the test listing
\* both succeeded, a failed Reconnect or test listing ends the handling, and a
\* failure after the retry is reported with no further daemon call.
C34_RetryOnceAfterReconnect ==
    RetryingFlow =>
        /\ Cardinality(CallsOf({"Reconnect"})) <= 1
        /\ \A i \in CallsOf({"Reconnect"}) :
              /\ mCalls[i][2] = "error" => i = Len(mCalls)
              /\ i + 1 <= Len(mCalls) =>
                    /\ mCalls[i+1][1] = "GetTorrents"
                    /\ mCalls[i+1][2] = "error" => i + 1 = Len(mCalls)
              /\ \A j \in 1..Len(mCalls) :
                    (j > i + 1 /\ mCalls[j][2] = "error") => j = Len(mCalls)
        /\ mRetry <=> \E i \in CallsOf({"Reconnect"}) :
                          /\ mCalls[i][2] = "ok"
                          /\ i + 1 <= Len(mCalls)
                          /\ mCalls[i+1][2] = "ok"
        /\ (mpc = "done" /\ mRetry /\ mCalls[Len(mCalls)][2] = "error") =>
              /\ mSent[Len(mSent)][1] = "error"
              /\ mSent[Len(mSent)][2] = "Error even after reconnection"

C34_Witness ==
    /\ mpc = "done"
    /\ mData = <<"/status">>
    /\ mRetry
    /\ Len(mCalls) = 4
    /\ mCalls[1][2] = "error"
    /\ mCalls[2][1] = "Reconnect"
    /\ mCalls[4][2] = "error"
    /\ mSent[Len(mSent)][2] = "Error even after reconnection"

\* the form posted by the i-th daemon operation
RequestOf(i) == CHOOSE r \in mCalls[i][3] : TRUE

\* C36 (as claimed): each verb sends at most one action request per token.
C36_AtMostOneActionRequest ==
    LifecycleHandled => Cardinality(CallsOf(ActionOps)) <= 1

\* C36: a delete request carries deleteFiles=true exactly for deletewithdata
\* and deleteFiles=false for delete; pause and resume post to their own
\* endpoint without the flag and info posts nothing; every request names
\* exactly the token's hash. Each call of HandleTorrentAction sends at most
\* one request: a handling sends a second one only after the first failed and
\* tryReconnect succeeded.
C36_PurgeFlagFollowsVerb ==
    LifecycleHandled =>
        /\ \A i \in CallsOf(ActionOps) :
              /\ RequestOf(i).hashes = MHash
              /\ RequestOf(i).path =
                    CASE MAction = <<"pause">>  -> "torrents/pause"
                      [] MAction = <<"resume">> -> "torrents/resume"
                      [] MAction \in {<<"delete">>, <<"deletewithdata">>}
                                                -> "torrents/delete"
                      [] OTHER                  -> "none"
              /\ RequestOf(i).deleteFiles =
                    CASE MAction = <<"deletewithdata">> -> "true"
                      [] MAction = <<"delete">>         -> "false"
                      [] OTHER                          -> "absent"
        /\ Cardinality(CallsOf(ActionOps)) <= 2
        /\ \A i, j \in CallsOf(ActionOps) :
              i < j => /\ mCalls[i][2] = "error"
                       /\ \E k \in CallsOf({"Reconnect"}) :
                             i < k /\ k < j /\ mCalls[k][2] = "ok"

C36_Witness ==
    /\ mpc = "done"
    /\ mData = <<"deletewithdata", Colon, "abc">>
    /\ Cardinality(CallsOf(ActionOps)) = 2
    /\ \A i \in CallsOf(ActionOps) : RequestOf(i).deleteFiles = "true"
    /\ mCalls[Len(mCalls)][1] = "DeleteTorrents"
    /\ mCalls[Len(mCalls)][2] = "ok"

\* the requester was told that a reconnect is being attempted
AttemptAnnounced ==
    \E j \in 1..Len(mSent) : mSent[j][2] = "Lost connection"

\* C31 (as claimed): every reconnect made while serving a request, on the
\* tracker session as on the daemon session, is announced to the requester
\* before it starts.
C31_EveryReconnectAnnounced ==
    \A i \in 1..Len(tLog) : tLog[i][1] = "Reconnect" => AttemptAnnounced

\* ------------------------------------------------------------------------
\* Start-up: main calls LoadConfig once, under any setting of the path variables
\* ------------------------------------------------------------------------
LoadConfigCall ==
    /\ config = NoConfig
    /\ config' = LoadConfig(env)
    /\ UNCHANGED env
    /\ UNCHANGED <<handlerVars, dReturn, linkVars, manageVars, trackerVars, daemonVars>>

InitConfig ==
    /\ InitHandlers
    /\ linkText = NoLink
    /\ processed = NoOutput
    /\ InitManage
    /\ mStore = EmptyStore
    /\ InitTrackerIdle
    /\ InitDaemonIdle
    /\ env \in [PathVars -> EnvValues]
    /\ config = NoConfig

NextConfig == LoadConfigCall

SpecConfig == InitConfig /\ [][NextConfig]_vars

\* "category, exists := b.config.TorrentCategories[categoryKey]" for a button
SavePathOf(button) == IF button \in DOMAIN config THEN config[button] ELSE ""

\* C38 (as claimed): once the configuration is loaded, a category whose path
\* variable is unset has its documented default, and the save path looked up
\* for any button of the category keyboard is not empty.
C38_DefaultsFillUnsetPaths ==
    config # NoConfig =>
        \A b \in CategoryButtons :
            /\ SavePathOf(b) # ""
            /\ Getenv(env, PathVar[b[1]]) = "" => SavePathOf(b) = DefaultSavePath[b[1]]

====
